---- MODULE Spec2Model ----
(***************************************************************************)
(* ANTON-SchildNRW-PDF-Tool: the roster converter (modules/converter.py)   *)
(* and the credential-document generator (modules/pdf_generator.py).       *)
(*                                                                         *)
(* Text is modelled as a sequence of one-character strings, so that        *)
(* strip(), lower(), split() and the regular-expression search are         *)
(* computed, not assumed.  <<>> is the empty string; it is also what       *)
(* _get_text_ns returns for a node that is missing.                        *)
(***************************************************************************)
EXTENDS Naturals, Integers, Sequences, FiniteSets, TLC

(***************************************************************************)
(* Bounds of the model                                                     *)
(***************************************************************************)
MaxChildren == 4
MaxDataRows == 2

(***************************************************************************)
(* Text helpers (Python str methods)                                       *)
(***************************************************************************)
UpperLetters == <<"A","B","C","D","E","F","G","H","I","J","K","L","M",
                  "N","O","P","Q","R","S","T","U","V","W","X","Y","Z">>
LowerLetters == <<"a","b","c","d","e","f","g","h","i","j","k","l","m",
                  "n","o","p","q","r","s","t","u","v","w","x","y","z">>
Digits == {"0","1","2","3","4","5","6","7","8","9"}

IsSpace(c) == c \in {" ", "\t", "\n", "\r"}
IsDigit(c) == c \in Digits
IsAlpha(c) == \E i \in 1..26 : c = UpperLetters[i] \/ c = LowerLetters[i]

LowerChar(c) ==
    IF \E i \in 1..26 : c = UpperLetters[i]
    THEN LowerLetters[CHOOSE i \in 1..26 : c = UpperLetters[i]]
    ELSE c

Lower(s) == [i \in 1..Len(s) |-> LowerChar(s[i])]

RECURSIVE LStrip(_)
LStrip(s) == IF s # <<>> /\ IsSpace(Head(s)) THEN LStrip(Tail(s)) ELSE s

RECURSIVE RStrip(_)
RStrip(s) ==
    IF s # <<>> /\ IsSpace(s[Len(s)]) THEN RStrip(SubSeq(s, 1, Len(s) - 1)) ELSE s

Strip(s) == RStrip(LStrip(s))

\* s.strip("_")
RECURSIVE LStripChar(_, _)
LStripChar(s, c) == IF s # <<>> /\ Head(s) = c THEN LStripChar(Tail(s), c) ELSE s

RECURSIVE RStripChar(_, _)
RStripChar(s, c) ==
    IF s # <<>> /\ s[Len(s)] = c THEN RStripChar(SubSeq(s, 1, Len(s) - 1), c) ELSE s

StripChar(s, c) == RStripChar(LStripChar(s, c), c)

\* s.replace(" ", "")
RECURSIVE RemoveChar(_, _)
RemoveChar(s, c) ==
    IF s = <<>> THEN <<>>
    ELSE IF Head(s) = c THEN RemoveChar(Tail(s), c)
    ELSE <<Head(s)>> \o RemoveChar(Tail(s), c)

\* s.split(d) for a one-character separator: always at least one part
RECURSIVE SplitAcc(_, _, _)
SplitAcc(s, d, cur) ==
    IF s = <<>> THEN <<cur>>
    ELSE IF Head(s) = d THEN <<cur>> \o SplitAcc(Tail(s), d, <<>>)
    ELSE SplitAcc(Tail(s), d, Append(cur, Head(s)))

Split(s, d) == SplitAcc(s, d, <<>>)

\* d.join(parts)
RECURSIVE Join(_, _)
Join(parts, d) ==
    IF parts = <<>> THEN <<>>
    ELSE IF Len(parts) = 1 THEN parts[1]
    ELSE parts[1] \o <<d>> \o Join(Tail(parts), d)

\* s.split() without argument: runs of whitespace separate, no empty parts
RECURSIVE DropEmpty(_)
DropEmpty(parts) ==
    IF parts = <<>> THEN <<>>
    ELSE IF Head(parts) = <<>> THEN DropEmpty(Tail(parts))
    ELSE <<Head(parts)>> \o DropEmpty(Tail(parts))

SplitWs(s) == DropEmpty(Split([i \in 1..Len(s) |-> IF IsSpace(s[i]) THEN " " ELSE s[i]], " "))

Contains(s, c) == \E i \in 1..Len(s) : s[i] = c

(***************************************************************************)
(* converter.py: text extraction and normalizers                           *)
(***************************************************************************)
\* _get_text_ns: the stripped text of the node, "" when the node is missing
get_text_ns(raw) == Strip(raw)

\* _norm_klasse
norm_klasse(raw) ==
    IF raw = <<>> THEN <<>>
    ELSE LET s0 == RemoveChar(Strip(raw), " ")
             s  == IF Len(s0) = 2 /\ s0[1] = "0" /\ IsDigit(s0[2]) THEN <<s0[2]>> ELSE s0
         IN  IF Len(s) >= 2 /\ IsAlpha(s[Len(s)])
             THEN SubSeq(s, 1, Len(s) - 1) \o <<LowerChar(s[Len(s)])>>
             ELSE s

KlassePrefix == <<"k","l","a","s","s","e","-">>

\* the characters [^-\s] of the token of re "klasse-([^-\s]+)"
IsTokenChar(c) == c # "-" /\ ~IsSpace(c)

\* position i starts a match of the regular expression
MatchesAt(g, i) ==
    /\ i + 7 <= Len(g)
    /\ Lower(SubSeq(g, i, i + 6)) = KlassePrefix
    /\ IsTokenChar(g[i + 7])

RECURSIVE TokenFrom(_, _)
TokenFrom(g, i) ==
    IF i <= Len(g) /\ IsTokenChar(g[i]) THEN <<g[i]>> \o TokenFrom(g, i + 1) ELSE <<>>

\* _klasse_from_membership_id: re.search takes the leftmost match, + is greedy
klasse_from_membership_id(group_id) ==
    IF group_id = <<>> THEN <<>>
    ELSE IF \E i \in 1..Len(group_id) : MatchesAt(group_id, i)
    THEN LET i == CHOOSE i \in 1..Len(group_id) :
                     MatchesAt(group_id, i) /\ \A j \in 1..(i - 1) : ~MatchesAt(group_id, j)
         IN  TokenFrom(group_id, i + 7)
    ELSE <<>>

\* mutant: an identifier that is already mapped keeps its class code
put_KeepFirst(result, person_id, klasse) == result @@ (person_id :> klasse)

\* result[person_id] = klasse
put(result, person_id, klasse) == (person_id :> klasse) @@ result

\* the inner loop of _build_membership_class_map over the members of one membership
RECURSIVE MapMembers(_, _, _)
MapMembers(result, members, klasse) ==
    IF members = <<>> THEN result
    ELSE LET person_id == get_text_ns(Head(members))
         IN  MapMembers(IF person_id # <<>>
                        THEN put(result, person_id, klasse)
                        ELSE result,
                        Tail(members), klasse)

RECURSIVE MapMemberships(_, _)
MapMemberships(result, ms) ==
    IF ms = <<>> THEN result
    ELSE LET group_id == get_text_ns(Head(ms).id)
             klasse   == norm_klasse(klasse_from_membership_id(group_id))
         IN  MapMemberships(IF klasse = <<>> THEN result
                            ELSE MapMembers(result, Head(ms).members, klasse),
                            Tail(ms))

\* mutant: the lookup only knows the memberships that precede the first person
build_membership_class_map_First(ms) ==
    MapMemberships(<<>>, IF ms = <<>> THEN <<>> ELSE SubSeq(ms, 1, 1))

\* _build_membership_class_map
build_membership_class_map(ms) == MapMemberships(<<>>, ms)

\* klasse_lookup.get(ref, "")
LookupGet(lookup, ref) == IF ref \in DOMAIN lookup THEN lookup[ref] ELSE <<>>

\* _split_name: (given, family)
split_name(p) ==
    LET given  == get_text_ns(p.given)
        family == get_text_ns(p.family)
        full   == get_text_ns(p.fn)
        parts  == Split(full, " ")
    IN  IF given = <<>> /\ family = <<>> /\ full # <<>>
        THEN IF Len(parts) >= 2
             THEN <<Join(Tail(parts), " "), parts[1]>>
             ELSE <<full, <<>>>>
        ELSE <<given, family>>

\* _read_reference
read_reference(p) == get_text_ns(p.id)

Herr == <<"H","e","r","r">>
Frau == <<"F","r","a","u">>

\* mutant: the last segment is inspected instead of the second
anrede_from_reference_LastSegment(ref) ==
    IF ref = <<>> THEN <<>>
    ELSE LET parts == Split(Strip(ref), "-")
             last  == parts[Len(parts)]
         IN  IF Len(parts) >= 2 /\ last # <<>> /\ last[Len(last)] \in {"3", "4"}
             THEN IF last[Len(last)] = "3" THEN Herr ELSE Frau
             ELSE <<>>

\* _anrede_from_reference
anrede_from_reference(ref) ==
    IF ref = <<>> THEN <<>>
    ELSE LET parts == Split(Strip(ref), "-")
         IN  IF Len(parts) >= 2 /\ parts[2] # <<>> /\ parts[2][Len(parts[2])] \in {"3", "4"}
             THEN IF parts[2][Len(parts[2])] = "3" THEN Herr ELSE Frau
             ELSE <<>>

RoleStudent == <<"s","t","u","d","e","n","t">>
RoleFaculty == <<"f","a","c","u","l","t","y">>
RoleExtern  == <<"e","x","t","e","r","n">>
RoleTeacher == <<"t","e","a","c","h","e","r">>
RoleStaff   == <<"s","t","a","f","f">>

\* mutant: the role tag is compared without lower-casing
is_student_CaseSensitive(p) ==
    \E k \in 1..Len(p.roles) : Strip(p.roles[k]) = RoleStudent

\* _is_student
is_student(p) ==
    \E k \in 1..Len(p.roles) : Lower(Strip(p.roles[k])) = RoleStudent

\* _is_teacher_like
is_teacher_like(p) ==
    \/ \E k \in 1..Len(p.roles) :
          Lower(Strip(p.roles[k])) \in {RoleFaculty, RoleExtern, RoleTeacher, RoleStaff}
    \/ (~is_student(p) /\ get_text_ns(p.email) # <<>>)

(***************************************************************************)
(* State                                                                   *)
(***************************************************************************)
VARIABLES
    xml,            \* the roster export: [exists, wellformed, children]
    c_pc,           \* position of ANTONConverter.convert
    c_i,            \* index of the next person of root.findall("ns:person")
    klasse_lookup,  \* convert's klasse_lookup
    schueler_rows,  \* convert's schueler_rows
    lehr_rows,      \* convert's lehr_rows
    c_kind,         \* per person already visited, the branch convert took
    out_files,      \* convert's returned mapping key -> file name
    c_result,       \* how convert ended
    fs,             \* output directory: file name -> lines written
    csv,            \* the tabular source: [exists, lines], and its name when chosen from fs
    settings,       \* the Settings the generator was built with
    g_pc,           \* position of PDFGenerator.generate
    g_delimiter,    \* _read_anton_csv's delimiter after auto-correction
    bind,           \* _read_anton_csv's i_anrede, i_v, i_n, i_k, i_r, i_c, assume
    g_line,         \* index of the next line the csv reader yields
    rows,           \* the records loaded so far
    g_src,          \* per loaded record, the line it was read from
    classes,        \* generate's classes, in insertion order: <<cls, people>>
    g_k,            \* index of the next group resp. record to render
    progress,       \* generate's [processed, next_progress]
    docs,           \* documents built: file name -> story
    stdout,         \* what generate printed
    g_result,       \* how generate ended
    stk,            \* one call of _sticker: its arguments, position and locals
    call,           \* one call of a converter helper: [fn, arg, pc, result]
    running,        \* App._running
    btn_state,      \* state of btn_convert and btn_run_pdf, and the status line
    log_q,          \* App._log_q
    txt,            \* the chunks _drain_log_queue appended to the log widget
    sys_stdout,     \* sys.stdout and sys.stderr: "console" or "gui"
    environ,        \* os.environ.get("NONINTERACTIVE"): <<>> is None, else <<value>>
    m_pc,           \* position of the Tk main thread
    m_fn,           \* the task _launch_thread was called with
    threads,        \* the worker threads started, in order: position and locals
    requests        \* number of start requests made, and of those the handler ignored

cvars == <<xml, c_pc, c_i, klasse_lookup, schueler_rows, lehr_rows, c_kind,
           out_files, c_result, fs>>

gvars == <<csv, settings, g_pc, g_delimiter, bind, g_line, rows, g_src, classes,
           g_k, progress, docs, stdout, g_result>>

svars == <<stk>>

hvars == <<call>>

uvars == <<running, btn_state, log_q, txt, sys_stdout, environ, m_pc, m_fn, threads,
           requests>>

vars == <<cvars, gvars, svars, hvars, uvars>>

(***************************************************************************)
(* Roster exports the model runs on                                        *)
(***************************************************************************)
Anna   == <<"A","n","n","a">>
Ben    == <<" ","B","e","n"," ">>
Muster == <<"M","u","s","t","e","r">>
FnCara == <<"M","u","s","t","e","r"," ","C","a","r","a"," ","L","u">>
FnCher == <<"C","h","e","r">>
Mail   == <<"a","@","b">>
R1     == <<"R","1">>
R2     == <<"R","2">>
IdHerr == <<"I","D","-","1","3","-","X">>
IdFrau == <<"I","D","-","2","4","-","Y">>

Person(roles, email, given, family, fn, id) ==
    [tag |-> "person", roles |-> roles, email |-> email, given |-> given,
     family |-> family, fn |-> fn, id |-> id, members |-> <<>>]

Membership(id, members) ==
    [tag |-> "membership", roles |-> <<>>, email |-> <<>>, given |-> <<>>,
     family |-> <<>>, fn |-> <<>>, id |-> id, members |-> members]

\* institutionroletype attribute values as they stand in the export
TagStudentMixed == <<"S","t","u","d","e","n","t">>
TagStudentUpper == <<" ","S","T","U","D","E","N","T">>
TagFaculty      == <<"f","a","c","u","l","t","y">>
TagExtern       == <<"E","x","t","e","r","n">>
TagTeacher      == <<"t","e","a","c","h","e","r">>
TagStaff        == <<"S","T","A","F","F"," ">>
TagGuest        == <<"g","u","e","s","t">>

RoleLists ==
    { <<>>, <<TagGuest>>, <<TagStudentMixed>>, <<TagFaculty>>, <<TagExtern>>,
      <<TagTeacher>>, <<TagStaff>>, <<TagGuest, TagStudentUpper>>,
      <<TagTeacher, TagStudentMixed>>, <<<<>>>> }

Emails == { <<>>, Mail, <<" ">> }

\* rosters of several entries
SomePersons ==
    { Person(<<TagStudentMixed>>, <<>>, Anna, Muster, <<>>, R1),
      Person(<<TagGuest, TagStudentUpper>>, Mail, <<>>, <<>>, FnCara, R2),
      Person(<<TagTeacher>>, <<>>, Ben, Muster, <<>>, IdHerr),
      Person(<<TagFaculty>>, Mail, <<>>, <<>>, <<>>, IdFrau),
      Person(<<>>, Mail, <<>>, <<>>, FnCher, R2) }

GidKlasse7a  == <<"k","l","a","s","s","e","-","7","a">>
GidKlasse07  == <<" ","X","-","K","l","a","s","s","e","-","0","7","-","2"," ">>
GidKlasse9C  == <<"K","L","A","S","S","E","-","9","C">>
GidKurs      == <<"k","u","r","s","-","1">>
GidKlasse10b == <<"k","l","a","s","s","e","-","-","k","l","a","s","s","e","-","1","0","B"," ","c">>

SomeMemberships ==
    { Membership(GidKlasse7a, <<R1>>),
      Membership(GidKlasse07, <<R1, <<" ","R","2">>>>),
      Membership(GidKurs, <<R1, <<>>>>) }

\* rosters of one entry, over every role list, address and name form
OnePersons ==
    { Person(r, e, n[1], n[2], n[3], i) :
        r \in RoleLists, e \in Emails,
        n \in { <<Anna, Muster, <<>>>>, <<<<>>, <<>>, <<>>>>, <<<<>>, <<>>, FnCara>> },
        i \in { R1, IdHerr } }

OneMemberships ==
    SomeMemberships \cup { Membership(GidKlasse10b, <<R1>>),
                           Membership(GidKlasse9C, <<R1, <<>>>>) }

SeqsUpTo(S, n) == UNION { [1..k -> S] : k \in 0..n }

\* the children of the root in document order: persons and memberships in any
\* number and order, up to n elements
Documents(PS, MS, n) == SeqsUpTo(PS \cup MS, n)

\* documents of at most one person and at most one membership, in either order
SmallDocuments(PS, MS) ==
    {<<>>} \cup { <<p>> : p \in PS } \cup { <<m>> : m \in MS }
      \cup { <<p, m>> : p \in PS, m \in MS } \cup { <<m, p>> : p \in PS, m \in MS }

\* root.findall("ns:person") / root.findall("ns:membership")
findall(children, tag) == SelectSeq(children, LAMBDA e : e.tag = tag)

(***************************************************************************)
(* ANTONConverter.convert                                                  *)
(***************************************************************************)
SchuelerCsv == "ANTON_Schueler.csv"
LehrkraefteCsv == "ANTON_Lehrkraefte.csv"

\* mutant: the existence check always succeeds
isfile_Always(f) == TRUE

\* os.path.isfile
isfile(f) == f.exists

\* convert, lines 133-135: the source file is missing
ConvertNotFound ==
    /\ c_pc = "start"
    /\ ~isfile(xml)
    /\ c_pc' = "done"
    /\ c_result' = "FileNotFoundError"
    /\ UNCHANGED <<xml, c_i, klasse_lookup, schueler_rows, lehr_rows, c_kind, out_files, fs>>
    /\ UNCHANGED <<gvars, svars, hvars, uvars>>

\* convert, line 137: ET.parse raises ParseError outside any try block
ConvertParseError ==
    /\ c_pc = "start"
    /\ isfile(xml)
    /\ ~xml.wellformed
    /\ c_pc' = "done"
    /\ c_result' = "ParseError"
    /\ UNCHANGED <<xml, c_i, klasse_lookup, schueler_rows, lehr_rows, c_kind, out_files, fs>>
    /\ UNCHANGED <<gvars, svars, hvars, uvars>>

\* convert, lines 137-143
ConvertParse ==
    /\ c_pc = "start"
    /\ isfile(xml)
    /\ xml.wellformed
    /\ klasse_lookup' = build_membership_class_map(findall(xml.children, "membership"))
    /\ schueler_rows' = <<>>
    /\ lehr_rows' = <<>>
    /\ c_i' = 1
    /\ c_pc' = "persons"
    /\ UNCHANGED <<xml, c_kind, out_files, c_result, fs>>
    /\ UNCHANGED <<gvars, svars, hvars, uvars>>

\* mutant: an entry already emitted with the same reference is not emitted again
student_rows_Dedup(rs, p, lookup) ==
    LET nm  == split_name(p)
        ref == read_reference(p)
    IN  IF (nm[1] # <<>> \/ nm[2] # <<>>) /\ ~\E k \in 1..Len(rs) : rs[k].Referenz = ref
        THEN Append(rs, [Vorname |-> nm[1], Nachname |-> nm[2],
                           Klasse |-> LookupGet(lookup, ref), Referenz |-> ref])
        ELSE rs

\* convert, lines 148-157: the student branch
student_rows(rs, p, lookup) ==
    LET nm  == split_name(p)
        ref == read_reference(p)
    IN  IF nm[1] # <<>> \/ nm[2] # <<>>
        THEN Append(rs, [Vorname |-> nm[1], Nachname |-> nm[2],
                           Klasse |-> LookupGet(lookup, ref), Referenz |-> ref])
        ELSE rs

\* convert, lines 159-167: the teacher branch
teacher_rows(rs, p) ==
    LET nm  == split_name(p)
        ref == read_reference(p)
    IN  Append(rs, [Anrede |-> anrede_from_reference(ref), Vorname |-> nm[1],
                      Nachname |-> nm[2], Referenz |-> ref])

\* convert, lines 145-169: one iteration of the loop over the persons
ConvertPerson ==
    /\ c_pc = "persons"
    /\ c_i <= Len(findall(xml.children, "person"))
    /\ LET p == findall(xml.children, "person")[c_i]
       IN  IF is_student(p)
           THEN /\ schueler_rows' = student_rows(schueler_rows, p, klasse_lookup)
                /\ c_kind' = Append(c_kind, "student")
                /\ UNCHANGED lehr_rows
           ELSE IF is_teacher_like(p)
           THEN /\ lehr_rows' = teacher_rows(lehr_rows, p)
                /\ c_kind' = Append(c_kind, "teacher")
                /\ UNCHANGED schueler_rows
           ELSE /\ c_kind' = Append(c_kind, "none")
                /\ UNCHANGED <<schueler_rows, lehr_rows>>
    /\ c_i' = c_i + 1
    /\ UNCHANGED <<xml, c_pc, klasse_lookup, out_files, c_result, fs>>
    /\ UNCHANGED <<gvars, svars, hvars, uvars>>

BOM == "BOM"
HAnrede   == <<"A","n","r","e","d","e">>
HVorname  == <<"V","o","r","n","a","m","e">>
HNachname == <<"N","a","c","h","n","a","m","e">>
HKlasse   == <<"K","l","a","s","s","e">>
HReferenz == <<"R","e","f","e","r","e","n","z">>

\* DataFrame.to_csv(sep=';', index=False, encoding='utf-8-sig'): the byte-order
\* marker, the header line, one line per row (no field of the model needs quoting)
to_csv(header, table) ==
    <<<<BOM>> \o Join(header, ";")>> \o [k \in 1..Len(table) |-> Join(table[k], ";")]

SchuelerTable(rs) ==
    [k \in 1..Len(rs) |-> <<rs[k].Vorname, rs[k].Nachname, rs[k].Klasse, rs[k].Referenz>>]

LehrTable(rs) ==
    [k \in 1..Len(rs) |-> <<rs[k].Anrede, rs[k].Vorname, rs[k].Nachname, rs[k].Referenz>>]

\* mutant: a table is written for an empty bucket as well
df_empty_Never(rs) == FALSE

\* DataFrame.empty
df_empty(rs) == rs = <<>>

\* convert, lines 171-184
ConvertWrite ==
    /\ c_pc = "persons"
    /\ c_i > Len(findall(xml.children, "person"))
    /\ LET ws == IF ~df_empty(schueler_rows)
                 THEN (SchuelerCsv :> to_csv(<<HVorname, HNachname, HKlasse, HReferenz>>,
                                             SchuelerTable(schueler_rows)))
                 ELSE <<>>
           wl == IF ~df_empty(lehr_rows)
                 THEN (LehrkraefteCsv :> to_csv(<<HAnrede, HVorname, HNachname, HReferenz>>,
                                                LehrTable(lehr_rows)))
                 ELSE <<>>
           os == IF ~df_empty(schueler_rows) THEN ("schueler_csv" :> SchuelerCsv) ELSE <<>>
           ol == IF ~df_empty(lehr_rows) THEN ("lehrkraefte_csv" :> LehrkraefteCsv) ELSE <<>>
       IN  /\ fs' = wl @@ ws @@ fs
           /\ out_files' = ol @@ os
    /\ c_pc' = "done"
    /\ c_result' = "returned"
    /\ UNCHANGED <<xml, c_i, klasse_lookup, schueler_rows, lehr_rows, c_kind>>
    /\ UNCHANGED <<gvars, svars, hvars, uvars>>

(***************************************************************************)
(* pdf_generator.py: the tabular record loader                             *)
(***************************************************************************)
\* csv.reader on one line (no field of the model is quoted): a blank line
\* yields a row without fields
ParseLine(line, delimiter) == IF line = <<>> THEN <<>> ELSE Split(line, delimiter)

\* hdr_norm, line 173
hdr_norm(header) == [k \in 1..Len(header) |-> Lower(Strip(header[k]))]

\* idx, lines 175-179: 0-based position of the first header equal to name, or -1
idx(hdr, name) ==
    IF \E k \in 1..Len(hdr) : hdr[k] = Lower(name)
    THEN (CHOOSE k \in 1..Len(hdr) : hdr[k] = Lower(name) /\ \A j \in 1..(k - 1) : hdr[j] # Lower(name)) - 1
    ELSE -1

NAnrede   == <<"a","n","r","e","d","e">>
NVorname  == <<"v","o","r","n","a","m","e">>
NNachname == <<"n","a","c","h","n","a","m","e">>
NKlasse   == <<"k","l","a","s","s","e">>
NReferenz == <<"r","e","f","e","r","e","n","z">>
CodeNames == << <<"a","n","m","e","l","d","e","-","c","o","d","e">>,
                <<"l","o","g","i","n","-","c","o","d","e">>,
                <<"l","o","g","i","n","c","o","d","e">>,
                <<"l","o","g","i","n","_","c","o","d","e">> >>

\* lines 186-191: the first synonym found in the header
idx_code(hdr) ==
    IF \E c \in 1..Len(CodeNames) : idx(hdr, CodeNames[c]) # -1
    THEN idx(hdr, CodeNames[CHOOSE c \in 1..Len(CodeNames) :
                               /\ idx(hdr, CodeNames[c]) # -1
                               /\ \A b \in 1..(c - 1) : idx(hdr, CodeNames[b]) = -1])
    ELSE -1

Min(S) == CHOOSE x \in S : \A y \in S : x <= y

\* line 193
assume_positional(i_v, i_n, i_k, i_r) ==
    LET found == { x \in {i_v, i_n, i_k, i_r} : x # -1 }
    IN  Min(IF found = {} THEN {-1} ELSE found) = -1

\* lines 173-193
bind_header(header) ==
    LET hdr == hdr_norm(header)
    IN  [i_anrede |-> idx(hdr, NAnrede), i_v |-> idx(hdr, NVorname),
         i_n |-> idx(hdr, NNachname), i_k |-> idx(hdr, NKlasse),
         i_r |-> idx(hdr, NReferenz), i_c |-> idx_code(hdr),
         assume |-> assume_positional(idx(hdr, NVorname), idx(hdr, NNachname),
                                      idx(hdr, NKlasse), idx(hdr, NReferenz))]

NoBind == [i_anrede |-> -1, i_v |-> -1, i_n |-> -1, i_k |-> -1, i_r |-> -1,
           i_c |-> -1, assume |-> TRUE]

\* (row[i] if i != -1 and len(row) > i else "").strip()
cell(row, i) == IF i # -1 /\ Len(row) > i THEN Strip(row[i + 1]) ELSE <<>>

\* mutant: the login code is read from the reference column
positional_record_CodeFromRef(row) ==
    [Anrede |-> <<>>, Vorname |-> cell(row, 0), Nachname |-> cell(row, 1),
     Klasse |-> cell(row, 2), Referenz |-> cell(row, 3), Code |-> cell(row, 3)]

\* lines 199-204
positional_record(row) ==
    [Anrede |-> <<>>, Vorname |-> cell(row, 0), Nachname |-> cell(row, 1),
     Klasse |-> cell(row, 2), Referenz |-> cell(row, 3), Code |-> cell(row, 4)]

\* lines 206-216
named_record(b, row) ==
    LET v == cell(row, b.i_v)
        n == cell(row, b.i_n)
    IN  [Anrede |-> cell(row, b.i_anrede),
         Vorname |-> IF v = <<>> /\ Len(row) > 0 THEN Strip(row[1]) ELSE v,
         Nachname |-> IF n = <<>> /\ Len(row) > 1 THEN Strip(row[2]) ELSE n,
         Klasse |-> cell(row, b.i_k), Referenz |-> cell(row, b.i_r),
         Code |-> cell(row, b.i_c)]

\* lines 198-216
read_record(b, row) == IF b.assume THEN positional_record(row) ELSE named_record(b, row)

(***************************************************************************)
(* pdf_generator.py: content of one person, grouping, documents            *)
(***************************************************************************)
Block(kind, size, text) == [kind |-> kind, size |-> size, text |-> text]
Paragraph(size, text) == Block("Paragraph", size, text)
Spacer(h) == Block("Spacer", h, <<>>)
PageBreak == Block("PageBreak", 0, <<>>)

Ja == <<"j","a">>
Nein == <<"n","e","i","n">>
DefaultLink == <<"https://www.anton.app">>

\* (firstname or "").split()[0] if firstname else ""
first_given_of(firstname) ==
    IF firstname = <<>> THEN <<>>
    ELSE IF SplitWs(firstname) = <<>> THEN <<>> ELSE SplitWs(firstname)[1]

\* mutant: the pattern of the summary block is made from the code alone
sticker_CodeOnly(firstname, lastname, code) == Block("Sticker", 0, code)

\* _sticker, lines 267-309: the summary block with the payload of its pattern
sticker(firstname, lastname, code) ==
    Block("Sticker", 0,
          IF code # <<>> THEN code ELSE first_given_of(firstname) \o <<" ">> \o lastname)

\* mutant: only the configured group decides the audience
is_teacher_of_FlagOnly(r, s) == Strip(s.pdf_schoolgroup) = <<"2">>

\* _build_anton_story, lines 348, 354-356: is_teacher
is_teacher_of(r, s) == Strip(s.pdf_schoolgroup) = <<"2">> \/ Strip(r.Anrede) # <<>>

Hallo == <<"H","a","l","l","o">>

\* _build_anton_story, lines 359-370: greet
greet_of(r, s) ==
    LET anrede    == Strip(r.Anrede)
        firstname == Strip(r.Vorname)
        lastname  == Strip(r.Nachname)
        full_name == Strip(Strip(first_given_of(firstname) \o <<" ">> \o lastname))
    IN  IF is_teacher_of(r, s) THEN Hallo \o <<" ">> \o full_name \o <<",">>
        ELSE IF anrede # <<>> THEN anrede \o <<" ">> \o full_name \o <<",">>
        ELSE Hallo \o <<" ">> \o full_name \o <<",">>

SieAccount == <<"Fuer Sie wurde ein Account angelegt.">>
DuAccount  == <<"Fuer dich wurde ein Account angelegt.">>
SieBrowser == <<"Gehen Sie im Browser auf ">>
DuBrowser  == <<"Gehe im Browser auf ">>
SieApp     == <<"oder laden Sie die kostenlose ANTON-App herunter.">>
DuApp      == <<"oder lade dir die kostenlose ANTON-App herunter.">>
SieCode    == <<"Sie koennen sich mit folgendem Code bei ANTON einloggen:">>
DuCode     == <<"Du kannst dich mit folgendem Code bei ANTON einloggen:">>
SieScan    == <<"Oder Sie scannen in der ANTON-App diesen QR-Code:">>
DuScan     == <<"Oder du scannst in der ANTON-App diesen QR-Code:">>
Willkommen == <<"Willkommen bei ANTON - der Lern-App fuer die Schule.">>

\* mutant: the scannable encoding is left out
code_blocks_NoQr(code, is_teacher) ==
    IF code # <<>>
    THEN << Paragraph(14, IF is_teacher THEN SieCode ELSE DuCode),
            Spacer(24), Paragraph(24, code), Spacer(24),
            Paragraph(14, IF is_teacher THEN SieScan ELSE DuScan), Spacer(12) >>
    ELSE <<>>

\* _build_anton_story, lines 396-414: the login code and its scannable encoding
code_blocks(code, is_teacher) ==
    IF code # <<>>
    THEN << Paragraph(14, IF is_teacher THEN SieCode ELSE DuCode),
            Spacer(24), Paragraph(24, code), Spacer(24),
            Paragraph(14, IF is_teacher THEN SieScan ELSE DuScan),
            Spacer(12), Block("QR", 200, code) >>
    ELSE <<>>

\* _build_anton_story
build_anton_story(r, s, logo_readable) ==
    LET firstname  == Strip(r.Vorname)
        lastname   == Strip(r.Nachname)
        code       == Strip(r.Code)
        anton_link == IF Strip(s.pdf_antonlink) # <<>> THEN Strip(s.pdf_antonlink) ELSE DefaultLink
        is_teacher == is_teacher_of(r, s)
    IN  (IF logo_readable THEN <<Block("Image", 150, <<>>)>> ELSE <<>>)
        \o << Spacer(12), Paragraph(14, greet_of(r, s)), Spacer(12),
              Paragraph(14, Willkommen), Spacer(12),
              Paragraph(14, IF is_teacher THEN SieAccount ELSE DuAccount), Spacer(24),
              Paragraph(14, IF is_teacher THEN SieBrowser ELSE DuBrowser),
              Spacer(12), Paragraph(18, anton_link), Spacer(12),
              Paragraph(14, IF is_teacher THEN SieApp ELSE DuApp), Spacer(24) >>
        \o code_blocks(code, is_teacher)
        \o << Spacer(18), Block("Divider", 0, <<>>), Spacer(12),
              sticker(firstname, lastname, code) >>

\* generate, lines 101-105
one_doc_of(s) ==
    LET onedoc_setting == Lower(Strip(s.pdf_onedoc))
    IN  IF onedoc_setting # <<>> THEN onedoc_setting = Ja
        ELSE Lower(Strip(s.pdf_einzeln)) # Ja

Lehrkraefte == <<"L","e","h","r","k","r","ae","f","t","e">>
OhneKlasse  == <<"o","h","n","e","_","k","l","a","s","s","e">>

\* generate, lines 113-118
class_of(r, s) ==
    LET cls_raw       == Strip(r.Klasse)
        group_setting == IF Strip(s.pdf_schoolgroup) # <<>> THEN Strip(s.pdf_schoolgroup) ELSE <<"1">>
    IN  IF cls_raw = <<>> /\ (group_setting = <<"2">> \/ Strip(r.Anrede) # <<>>)
        THEN Lehrkraefte
        ELSE IF cls_raw # <<>> THEN cls_raw ELSE OhneKlasse

\* classes[cls].append(r) on the insertion-ordered mapping
RECURSIVE add_to_class(_, _, _)
add_to_class(cs, cls, r) ==
    IF cs = <<>> THEN << <<cls, <<r>>>> >>
    ELSE IF Head(cs)[1] = cls THEN << <<cls, Append(Head(cs)[2], r)>> >> \o Tail(cs)
    ELSE <<Head(cs)>> \o add_to_class(Tail(cs), cls, r)

\* generate, lines 111-119
RECURSIVE group_rows(_, _, _)
group_rows(cs, rs, s) ==
    IF rs = <<>> THEN cs
    ELSE group_rows(add_to_class(cs, class_of(Head(rs), s), Head(rs)), Tail(rs), s)

\* generate, lines 123-126
group_filename(cls) ==
    IF cls = Lehrkraefte THEN Lehrkraefte \o <<"_Zugangsdaten_", "ts", ".pdf">>
    ELSE cls \o <<"_ANTON-Zugangsdaten_", "ts", ".pdf">>

\* generate, lines 150-152
person_filename(r) ==
    StripChar(r.Klasse \o <<"_">> \o r.Nachname \o <<",">> \o first_given_of(r.Vorname), "_")
      \o <<"_", "ts", ".pdf">>

\* mutant: a page break follows every person, the last included
page_break_after_Always(k, n) == <<PageBreak>>

\* generate, lines 138-140: a page break only between two persons
page_break_after(k, n) == IF k < n THEN <<PageBreak>> ELSE <<>>

\* generate, lines 131-140: the story of one group
RECURSIVE group_story(_, _, _, _)
group_story(people, k, s, logo_readable) ==
    IF k > Len(people) THEN <<>>
    ELSE build_anton_story(people[k], s, logo_readable)
           \o page_break_after(k, Len(people))
           \o group_story(people, k + 1, s, logo_readable)

\* lines 132-136 resp. 145-148: the progress lines printed while n records are
\* rendered, starting from pr = [processed, next_progress]
RECURSIVE progress_after(_, _, _)
progress_after(pr, n, total) ==
    IF n = 0 THEN [pr |-> pr, out |-> <<>>]
    ELSE LET processed == pr.processed + 1
             pct       == (processed * 100) \div total
             hit       == pct >= pr.next_progress
             rest      == progress_after([processed |-> processed,
                                          next_progress |-> IF hit THEN pr.next_progress + 10
                                                            ELSE pr.next_progress],
                                         n - 1, total)
         IN  [pr |-> rest.pr,
              out |-> (IF hit THEN << <<"Fortschritt", pct, processed, total>> >> ELSE <<>>)
                        \o rest.out]

\* io_utils.pause: returns to the caller
pause(out) == out

LogoReadable == TRUE

\* generate, lines 86-91: the source file is missing
GenNotFound ==
    /\ g_pc = "start"
    /\ ~isfile(csv)
    /\ stdout' = pause(stdout \o << <<"FEHLER!">>, <<"Die CSV-Datei wurde nicht gefunden.">> >>)
    /\ g_result' = "FileNotFoundError"
    /\ g_pc' = "done"
    /\ UNCHANGED <<csv, settings, g_delimiter, bind, g_line, rows, g_src, classes, g_k,
                   progress, docs>>
    /\ UNCHANGED <<cvars, svars, hvars, uvars>>

\* _read_anton_csv, lines 162-193: open, correct the delimiter, read the header
GenOpen ==
    /\ g_pc = "start"
    /\ isfile(csv)
    /\ LET declared   == IF settings.csv_delimiter # "" THEN settings.csv_delimiter ELSE ","
           first_line == IF csv.lines = <<>> THEN <<>> ELSE csv.lines[1]
           delimiter  == IF Contains(first_line, ";") /\ declared = "," THEN ";" ELSE declared
       IN  /\ g_delimiter' = delimiter
           /\ bind' = IF csv.lines = <<>> THEN NoBind
                      ELSE bind_header(ParseLine(csv.lines[1], delimiter))
           /\ g_line' = IF csv.lines = <<>> THEN 1 ELSE 2
    /\ rows' = <<>>
    /\ g_src' = <<>>
    /\ g_pc' = "rows"
    /\ UNCHANGED <<csv, settings, classes, g_k, progress, docs, stdout, g_result>>
    /\ UNCHANGED <<cvars, svars, hvars, uvars>>

\* _read_anton_csv, lines 195-226: one data row
GenReadRow ==
    /\ g_pc = "rows"
    /\ g_line <= Len(csv.lines)
    /\ LET row == ParseLine(csv.lines[g_line], g_delimiter)
           rec == read_record(bind, row)
       IN  IF row = <<>> \/ (rec.Vorname = <<>> /\ rec.Nachname = <<>>)
           THEN UNCHANGED <<rows, g_src>>
           ELSE /\ rows' = Append(rows, rec)
                /\ g_src' = Append(g_src, g_line)
    /\ g_line' = g_line + 1
    /\ UNCHANGED <<csv, settings, g_pc, g_delimiter, bind, classes, g_k, progress, docs,
                   stdout, g_result>>
    /\ UNCHANGED <<cvars, svars, hvars, uvars>>

Loaded == g_pc = "rows" /\ g_line > Len(csv.lines)

\* generate, lines 94-97: nothing was loaded
GenNoRows ==
    /\ Loaded
    /\ rows = <<>>
    /\ stdout' = pause(Append(stdout, <<"Keine Datenzeilen in der CSV gefunden.">>))
    /\ g_result' = "returned"
    /\ g_pc' = "done"
    /\ UNCHANGED <<csv, settings, g_delimiter, bind, g_line, rows, g_src, classes, g_k,
                   progress, docs>>
    /\ UNCHANGED <<cvars, svars, hvars, uvars>>

\* generate, lines 98-121: choose the mode, group the records
GenGroup ==
    /\ Loaded
    /\ rows # <<>>
    /\ progress' = [processed |-> 0, next_progress |-> 10]
    /\ g_k' = 1
    /\ IF one_doc_of(settings)
       THEN /\ classes' = group_rows(<<>>, rows, settings)
            /\ g_pc' = "groups"
       ELSE /\ classes' = <<>>
            /\ g_pc' = "persons"
    /\ UNCHANGED <<csv, settings, g_delimiter, bind, g_line, rows, g_src, docs, stdout, g_result>>
    /\ UNCHANGED <<cvars, svars, hvars, uvars>>

\* generate, lines 122-142: the document of one group
GenGroupDoc ==
    /\ g_pc = "groups"
    /\ g_k <= Len(classes)
    /\ LET cls    == classes[g_k][1]
           people == classes[g_k][2]
           pa     == progress_after(progress, Len(people), Len(rows))
       IN  /\ docs' = (group_filename(cls) :> group_story(people, 1, settings, LogoReadable)) @@ docs
           /\ progress' = pa.pr
           /\ stdout' = stdout \o pa.out
    /\ g_k' = g_k + 1
    /\ UNCHANGED <<csv, settings, g_pc, g_delimiter, bind, g_line, rows, g_src, classes, g_result>>
    /\ UNCHANGED <<cvars, svars, hvars, uvars>>

\* generate, lines 144-155: the document of one record
GenPersonDoc ==
    /\ g_pc = "persons"
    /\ g_k <= Len(rows)
    /\ LET r  == rows[g_k]
           pa == progress_after(progress, 1, Len(rows))
       IN  /\ docs' = (person_filename(r) :> build_anton_story(r, settings, LogoReadable)) @@ docs
           /\ progress' = pa.pr
           /\ stdout' = stdout \o pa.out
    /\ g_k' = g_k + 1
    /\ UNCHANGED <<csv, settings, g_pc, g_delimiter, bind, g_line, rows, g_src, classes, g_result>>
    /\ UNCHANGED <<cvars, svars, hvars, uvars>>

\* generate, lines 157-158
GenFinish ==
    /\ \/ g_pc = "groups" /\ g_k > Len(classes)
       \/ g_pc = "persons" /\ g_k > Len(rows)
    /\ stdout' = pause(Append(stdout, <<"PDFs erstellt.">>))
    /\ g_result' = "returned"
    /\ g_pc' = "done"
    /\ UNCHANGED <<csv, settings, g_delimiter, bind, g_line, rows, g_src, classes, g_k,
                   progress, docs>>
    /\ UNCHANGED <<cvars, svars, hvars, uvars>>

NextGenerate ==
    \/ GenNotFound
    \/ GenOpen
    \/ GenReadRow
    \/ GenNoRows
    \/ GenGroup
    \/ GenGroupDoc
    \/ GenPersonDoc
    \/ GenFinish

(***************************************************************************)
(* pdf_generator.py: _sticker, the layout of the summary block             *)
(***************************************************************************)
\* advance widths of the fallback font Helvetica, in 1/1000 of the font size
CharWidth(c) ==
    IF c \in {"i", "j", "l"} THEN 222
    ELSE IF c \in {" ", "I", "f", "t"} THEN 278
    ELSE IF c \in {"-", "r"} THEN 333
    ELSE IF c \in {"J", "c", "k", "s", "v", "x", "y", "z"} THEN 500
    ELSE IF c \in {"L"} \cup Digits
              \cup {"a", "b", "d", "e", "g", "h", "n", "o", "p", "q", "u"} THEN 556
    ELSE IF c \in {"F", "T", "Z"} THEN 611
    ELSE IF c \in {"A", "B", "E", "K", "P", "S", "V", "X", "Y"} THEN 667
    ELSE IF c \in {"C", "D", "H", "N", "R", "U", "w"} THEN 722
    ELSE IF c \in {"G", "O", "Q"} THEN 778
    ELSE IF c \in {"M", "m"} THEN 833
    ELSE IF c = "W" THEN 944
    ELSE 556

RECURSIVE SumWidths(_)
SumWidths(s) == IF s = <<>> THEN 0 ELSE CharWidth(Head(s)) + SumWidths(Tail(s))

\* pdfmetrics.stringWidth(text, font_name, size), in 1/1000 point
stringWidth(s, size) == SumWidths(s) * size

\* mutant: the logo column is 25 mm wide for every image
logo_width_Square(logo) == <<25, 1>>

\* lines 255-264: logo_w in mm as the fraction <<numerator, denominator>>; an
\* image that cannot be read leaves the 25 mm of the start
logo_width(logo) ==
    IF logo.readable /\ logo.iw # 0 /\ logo.ih # 0
    THEN <<25 * logo.iw, logo.ih>>
    ELSE <<25, 1>>

\* lines 267-271
name_lines(firstname, lastname) ==
    LET first_given == first_given_of(firstname)
        l0 == Strip(IF first_given # <<>> THEN first_given ELSE <<" ">>)
        l1 == Strip(IF lastname # <<>> THEN lastname ELSE <<" ">>)
    IN  << IF l0 # <<>> THEN l0 ELSE <<" ">>, IF l1 # <<>> THEN l1 ELSE <<" ">> >>

pad       == 6
name_font == 8

\* line 279: target_width - logo_w - 30 mm, in mm as a fraction
available_name_col(logo_w) == <<(100 - 30) * logo_w[2] - logo_w[1], logo_w[2]>>

\* mutant: the candidates are tried from the smallest
Candidates_Ascending == <<8, 9, 10, 12, 14, 16, 18, 20, 22, 24, 26, 28>>

\* line 283
Candidates == <<28, 26, 24, 22, 20, 18, 16, 14, 12, 10, 9, 8>>

Max3(a, b, c) == IF a >= b /\ a >= c THEN a ELSE IF b >= c THEN b ELSE c

\* lines 284-288: w in 1/1000 point
width_at(code, lines, size) ==
    Max3(stringWidth(code, size), stringWidth(lines[1], name_font),
         stringWidth(lines[2], name_font)) + 2 * pad * 1000

\* line 289: w <= available_name_col, one mm being 72/25.4 point
fits(w, col) == w * 127 * col[2] <= col[1] * 360000

NoLogo == [readable |-> FALSE, iw |-> 0, ih |-> 0]

StickerVarsAt(pc, firstname, lastname, code, logo) ==
    stk = [pc |-> pc, firstname |-> firstname, lastname |-> lastname, code |-> code,
           logo |-> logo, logo_w |-> <<25, 1>>, k |-> 1, code_font |-> 0]

StickerIdle == StickerVarsAt("idle", <<>>, <<>>, <<>>, NoLogo)

\* _sticker, lines 255-279: the logo is measured
StickerLogo ==
    /\ stk.pc = "start"
    /\ stk' = [stk EXCEPT !.logo_w = logo_width(stk.logo), !.k = 1, !.pc = "fit"]
    /\ UNCHANGED <<cvars, gvars, hvars, uvars>>

\* code_font_that_fits, lines 283-290: one candidate is tried
StickerTry ==
    /\ stk.pc = "fit"
    /\ stk.k <= Len(Candidates)
    /\ LET size == Candidates[stk.k]
           w    == width_at(stk.code, name_lines(stk.firstname, stk.lastname), size)
       IN  IF fits(w, available_name_col(stk.logo_w))
           THEN stk' = [stk EXCEPT !.code_font = size, !.pc = "done"]
           ELSE stk' = [stk EXCEPT !.k = stk.k + 1]
    /\ UNCHANGED <<cvars, gvars, hvars, uvars>>

\* code_font_that_fits, line 291: no candidate fitted
StickerNothingFits ==
    /\ stk.pc = "fit"
    /\ stk.k > Len(Candidates)
    /\ stk' = [stk EXCEPT !.code_font = 8, !.pc = "done"]
    /\ UNCHANGED <<cvars, gvars, hvars, uvars>>

NextSticker == StickerLogo \/ StickerTry \/ StickerNothingFits

(***************************************************************************)
(* Initial states: the sources and settings a run starts from              *)
(***************************************************************************)
ConvertVarsAt(pc) ==
    /\ c_pc = pc
    /\ c_i = 1
    /\ klasse_lookup = <<>>
    /\ schueler_rows = <<>>
    /\ lehr_rows = <<>>
    /\ c_kind = <<>>
    /\ out_files = <<>>
    /\ c_result = "running"
    /\ fs = <<>>

GenerateVarsAt(pc) ==
    /\ g_pc = pc
    /\ g_delimiter = ","
    /\ bind = [i_anrede |-> -1, i_v |-> -1, i_n |-> -1, i_k |-> -1, i_r |-> -1,
               i_c |-> -1, assume |-> TRUE]
    /\ g_line = 1
    /\ rows = <<>>
    /\ g_src = <<>>
    /\ classes = <<>>
    /\ g_k = 1
    /\ progress = [processed |-> 0, next_progress |-> 10]
    /\ docs = <<>>
    /\ stdout = <<>>
    /\ g_result = "running"

HelperVarsAt(pc, fn, arg) == call = [pc |-> pc, fn |-> fn, arg |-> arg, result |-> <<>>]

HelperIdle == HelperVarsAt("idle", "none", <<>>)

\* App.__init__, gui.py lines 77-79, in a process whose NONINTERACTIVE is env
GuiVarsAt(env) ==
    /\ running = FALSE
    /\ btn_state = "normal"
    /\ log_q = <<>>
    /\ txt = <<>>
    /\ sys_stdout = "console"
    /\ environ = env
    /\ m_pc = "mainloop"
    /\ m_fn = "none"
    /\ threads = <<>>
    /\ requests = [made |-> 0, ignored |-> 0]

GuiIdle == GuiVarsAt(<<>>)

\* a file that is missing or not well-formed has no content the run sees
XmlFiles(ds) ==
    { [exists |-> TRUE, wellformed |-> TRUE, children |-> d] : d \in ds }
      \cup { [exists |-> FALSE, wellformed |-> FALSE, children |-> <<>>],
             [exists |-> TRUE, wellformed |-> FALSE, children |-> <<>>] }

NoXml == [exists |-> FALSE, wellformed |-> FALSE, children |-> <<>>]
NoCsv == [exists |-> FALSE, lines |-> <<>>]

\* Settings, settings.py lines 7-21
Settings(delimiter, onedoc, einzeln, schoolgroup) ==
    [csv_delimiter |-> delimiter, pdf_onedoc |-> onedoc, pdf_einzeln |-> einzeln,
     pdf_schoolgroup |-> schoolgroup, pdf_antonlink |-> <<"https://www.anton.app">>]

\* cells of the tabular sources
CsvGiven  == <<" ","I","d","a"," ","M","a","y">>
CsvFamily == <<"K","o","c","h">>
CsvKlasse == <<"7","a"," ">>
CsvCode   == <<"X","Y","Z">>
CsvBen    == <<"B","e","n">>
CsvLang   == <<"L","a","n","g"," ">>
CsvCode2  == <<"A","B","C">>
HLogin    == <<"L","o","g","i","n","-","C","o","d","e">>

RowFull    == <<CsvGiven, CsvFamily, CsvKlasse, R1, CsvCode>>
RowBen     == <<CsvBen, CsvLang, <<>>, R2, CsvCode2>>
RowNoGiven == <<<<>>, CsvFamily, CsvKlasse, R1, CsvCode>>
RowNoFamily == <<CsvGiven, <<" ">>, CsvKlasse, R1, <<>>>>
RowNoNames == <<<<>>, <<>>, CsvKlasse, R1, CsvCode>>
RowShort   == <<CsvFamily>>
RowBlank   == <<>>

DataRows == { RowFull, RowBen, RowNoGiven, RowNoNames, RowShort, RowBlank }

HdrStd     == <<HVorname, HNachname, HKlasse, HReferenz, HLogin>>
HdrSwapped == <<HNachname, HVorname, HKlasse, HReferenz, HLogin>>
HdrUpper   == << <<" ","V","O","R","N","A","M","E">>, <<"N","A","C","H","N","A","M","E"," ">>,
                 <<"K","L","A","S","S","E">>, HReferenz,
                 <<"A","n","m","e","l","d","e","-","C","o","d","e">> >>
HdrUnknown == << <<"a">>, <<"b">>, <<"c">>, <<"d">>, <<"e">> >>
HdrPartial == << <<"x">>, <<"y">>, HKlasse, <<"z">>, <<"w">> >>
HdrBom     == << <<BOM>> \o HVorname, HNachname, HKlasse, HReferenz >>

\* first lines: header rows, a blank line, and data rows of header-less sources
FirstRows == { HdrStd, HdrSwapped, HdrUpper, HdrUnknown, HdrPartial, HdrBom,
               <<>>, RowFull }

CsvFile(first, data, d) ==
    [exists |-> TRUE,
     lines |-> <<Join(first, d)>> \o [k \in 1..Len(data) |-> Join(data[k], d)]]

\* <<delimiter of the file, declared delimiter>>
DelimPairs == { <<";", ";">>, <<";", ",">>, <<",", "">> }

LoadSettings(declared) ==
    { Settings(declared, Ja, Ja, <<"1">>), Settings(declared, <<>>, <<"J","a"," ">>, <<"2">>) }

InitConvert ==
    /\ xml \in XmlFiles(Documents(SomePersons, SomeMemberships, MaxChildren))
    /\ ConvertVarsAt("start")
    /\ csv = NoCsv
    /\ settings = Settings(";", Nein, Ja, <<"1">>)
    /\ GenerateVarsAt("idle")
    /\ StickerIdle
    /\ HelperIdle
    /\ GuiIdle

InitConvertOne ==
    /\ xml \in XmlFiles(SmallDocuments(OnePersons, OneMemberships))
    /\ ConvertVarsAt("start")
    /\ csv = NoCsv
    /\ settings = Settings(";", Nein, Ja, <<"1">>)
    /\ GenerateVarsAt("idle")
    /\ StickerIdle
    /\ HelperIdle
    /\ GuiIdle

InitLoad ==
    /\ \E first \in FirstRows, data \in SeqsUpTo(DataRows, MaxDataRows), dp \in DelimPairs :
          /\ csv \in { CsvFile(first, data, dp[1]), NoCsv, [exists |-> TRUE, lines |-> <<>>] }
          /\ settings \in LoadSettings(dp[2])
    /\ GenerateVarsAt("start")
    /\ StickerIdle
    /\ HelperIdle
    /\ GuiIdle
    /\ xml = NoXml
    /\ ConvertVarsAt("idle")

\* the five columns in every order
Perms == { f \in [1..5 -> 1..5] : \A i, j \in 1..5 : f[i] = f[j] => i = j }
Permuted(row, f) == [k \in 1..5 |-> row[f[k]]]

PermRows == { RowFull, RowBen, RowNoGiven, RowNoFamily }

InitLoadPerm ==
    /\ \E f \in Perms, data \in SeqsUpTo(PermRows, MaxDataRows) :
          csv \in { CsvFile(Permuted(HdrStd, f), [k \in 1..Len(data) |-> Permuted(data[k], f)], ";"),
                    NoCsv }
    /\ settings \in LoadSettings(";")
    /\ GenerateVarsAt("start")
    /\ StickerIdle
    /\ HelperIdle
    /\ GuiIdle
    /\ xml = NoXml
    /\ ConvertVarsAt("idle")

\* both operations of the tool on their own sources
InitTool ==
    /\ xml \in XmlFiles(SmallDocuments(SomePersons, SomeMemberships))
    /\ ConvertVarsAt("start")
    /\ csv \in { CsvFile(HdrStd, data, ";") : data \in SeqsUpTo({RowFull, RowBen}, 1) }
                 \cup { NoCsv }
    /\ settings \in LoadSettings(";")
    /\ GenerateVarsAt("start")
    /\ StickerIdle
    /\ HelperIdle
    /\ GuiIdle

NextConvert ==
    \/ ConvertNotFound
    \/ ConvertParseError
    \/ ConvertParse
    \/ ConvertPerson
    \/ ConvertWrite

NextTool == NextConvert \/ NextGenerate

SpecConvert == InitConvert /\ [][NextConvert]_vars

SpecConvertOne == InitConvertOne /\ [][NextConvert]_vars

SpecLoad == InitLoad /\ [][NextGenerate]_vars

SpecLoadPerm == InitLoadPerm /\ [][NextGenerate]_vars

SpecTool == InitTool /\ [][NextTool]_vars

(***************************************************************************)
(* Properties of the converter                                             *)
(***************************************************************************)
Persons == findall(xml.children, "person")
Memberships == findall(xml.children, "membership")

\* the role tags of an entry, compared case-insensitively
TagSet(p) == { Lower(Strip(p.roles[k])) : k \in 1..Len(p.roles) }

HasName(p) == split_name(p)[1] # <<>> \/ split_name(p)[2] # <<>>

ExpectedKind(p) ==
    IF RoleStudent \in TagSet(p) THEN "student"
    ELSE IF \/ TagSet(p) \cap {RoleFaculty, RoleExtern, RoleTeacher, RoleStaff} # {}
            \/ Strip(p.email) # <<>>
         THEN "teacher"
         ELSE "none"

Visited(kind) == { j \in 1..Len(c_kind) : c_kind[j] = kind }

\* C1: an entry is classified student iff some tag equals "student" (case-
\* insensitively); otherwise teacher-like iff some tag is one of faculty, extern,
\* teacher, staff or the contact address is non-empty; otherwise it is
\* unclassified.  An unclassified entry contributes to neither output and no
\* entry contributes to both: each output holds at most one record per entry of
\* its kind, and at least one per named entry of its kind.
C1_Classification ==
    /\ Len(c_kind) <= Len(Persons)
    /\ \A j \in 1..Len(c_kind) : c_kind[j] = ExpectedKind(Persons[j])
    /\ Len(schueler_rows) <= Cardinality(Visited("student"))
    /\ Len(lehr_rows) <= Cardinality(Visited("teacher"))
    /\ Len(schueler_rows) >= Cardinality({ j \in Visited("student") : HasName(Persons[j]) })
    /\ Len(lehr_rows) >= Cardinality({ j \in Visited("teacher") : HasName(Persons[j]) })

\* an entry tagged both teacher and student, with a contact address, went to
\* the students only
C1_Witness ==
    /\ c_pc = "done" /\ c_result = "returned"
    /\ Len(Persons) = 1
    /\ {RoleStudent, RoleTeacher} \subseteq TagSet(Persons[1])
    /\ Strip(Persons[1].email) # <<>>
    /\ c_kind = <<"student">>
    /\ Len(schueler_rows) = 1 /\ lehr_rows = <<>>

EntryKey(p) == <<split_name(p)[1], split_name(p)[2], read_reference(p)>>
RowKey(r) == <<r.Vorname, r.Nachname, r.Referenz>>
Named(r) == r.Vorname # <<>> \/ r.Nachname # <<>>

VisitedPersons == SubSeq(Persons, 1, c_i - 1)

KeysOfEntries(ps) == [k \in 1..Len(ps) |-> EntryKey(ps[k])]
KeysOfRows(rs) == [k \in 1..Len(rs) |-> RowKey(rs[k])]

\* C2: the student records and the teacher records stand in the order of their
\* person entries, one record per qualifying entry, duplicates included: the
\* (given, family, reference) of the records are those of the named student
\* entries, resp. the named teacher-like entries, visited so far, in source order.
C2_OrderNoDedup ==
    /\ KeysOfRows(schueler_rows) =
         KeysOfEntries(SelectSeq(VisitedPersons,
                                 LAMBDA p : ExpectedKind(p) = "student" /\ HasName(p)))
    /\ KeysOfRows(SelectSeq(lehr_rows, Named)) =
         KeysOfEntries(SelectSeq(VisitedPersons,
                                 LAMBDA p : ExpectedKind(p) = "teacher" /\ HasName(p)))

\* two entries of the same kind and reference gave two records, after the
\* record of a different student entry that stands before them
C2_Witness ==
    /\ c_pc = "done"
    /\ Len(schueler_rows) = 3
    /\ schueler_rows[1].Referenz = R2
    /\ schueler_rows[2].Referenz = R1
    /\ schueler_rows[2] = schueler_rows[3]

\* the class code the claim derives from a membership
ClassCodeOf(m) == norm_klasse(klasse_from_membership_id(Strip(m.id)))

\* a membership lists a reference: one of its member identifiers is that reference
Lists(m, ref) == ref # <<>> /\ \E k \in 1..Len(m.members) : Strip(m.members[k]) = ref

ListingMemberships(ref) ==
    { k \in 1..Len(xml.children) :
        /\ xml.children[k].tag = "membership"
        /\ ClassCodeOf(xml.children[k]) # <<>>
        /\ Lists(xml.children[k], ref) }

\* C3: the class_code of every student record is the normalized class token of
\* a membership, standing anywhere in the document, that lists the record's
\* reference, and is empty when no membership with a derivable class code lists
\* it; reference "R1" with the single listing membership "klasse-7a" gives "7a".
C3_ClassCode ==
    \A k \in 1..Len(schueler_rows) :
        LET r  == schueler_rows[k]
            ls == ListingMemberships(r.Referenz)
        IN  /\ ls = {} => r.Klasse = <<>>
            /\ ls # {} => \E j \in ls : r.Klasse = ClassCodeOf(xml.children[j])
            /\ (r.Referenz = R1 /\ ls # {}
                  /\ \A j \in ls : xml.children[j].id = GidKlasse7a)
                 => r.Klasse = <<"7", "a">>

\* the membership "klasse-7a" stands after the student entry it lists
C3_Witness ==
    /\ c_pc = "done"
    /\ Len(xml.children) = 2
    /\ xml.children[1].tag = "person" /\ Strip(xml.children[1].id) = R1
    /\ xml.children[2].tag = "membership" /\ xml.children[2].id = GidKlasse7a
    /\ Len(schueler_rows) = 1
    /\ schueler_rows[1].Klasse = <<"7", "a">>

\* C4: no record with both given and family name empty appears in the students
\* or the teachers output.
C4_NoNamelessRecord ==
    /\ \A k \in 1..Len(schueler_rows) : Named(schueler_rows[k])
    /\ \A k \in 1..Len(lehr_rows) : Named(lehr_rows[k])

\* C5: a students table is written iff a student record was produced, a teachers
\* table iff a teacher record was produced; an empty bucket has no file and no
\* entry in the returned mapping.
C5_TablesIffNonEmpty ==
    /\ c_result = "returned" =>
         /\ (SchuelerCsv \in DOMAIN fs) <=> (schueler_rows # <<>>)
         /\ (LehrkraefteCsv \in DOMAIN fs) <=> (lehr_rows # <<>>)
         /\ ("schueler_csv" \in DOMAIN out_files) <=> (schueler_rows # <<>>)
         /\ ("lehrkraefte_csv" \in DOMAIN out_files) <=> (lehr_rows # <<>>)
         /\ \A key \in DOMAIN out_files : out_files[key] \in DOMAIN fs
    /\ c_result # "returned" => DOMAIN fs = {} /\ DOMAIN out_files = {}

\* students were produced and no teacher: only the students table exists
C5_Witness ==
    /\ c_result = "returned"
    /\ schueler_rows # <<>> /\ lehr_rows = <<>>
    /\ DOMAIN fs = {SchuelerCsv}
    /\ DOMAIN out_files = {"schueler_csv"}

\* C7: the only failure convert propagates is a missing source file; with the
\* source file present the run completes.
C7_OnlyNotFoundPropagates ==
    (c_pc = "done" /\ xml.exists) => c_result = "returned"

\* C6: with the declared source file missing, convert and generate end with a
\* not-found error handed to the caller, and the operation writes no table and
\* no document, neither before nor after it fails.
C6_NotFoundNoOutput ==
    /\ ~xml.exists =>
         /\ DOMAIN fs = {} /\ DOMAIN out_files = {}
         /\ c_pc = "done" => c_result = "FileNotFoundError"
    /\ ~csv.exists =>
         /\ DOMAIN docs = {}
         /\ g_pc = "done" => g_result = "FileNotFoundError"

\* both sources are missing and both operations have failed
C6_Witness ==
    /\ ~xml.exists /\ c_pc = "done" /\ c_result = "FileNotFoundError"
    /\ ~csv.exists /\ g_pc = "done" /\ g_result = "FileNotFoundError"
    /\ DOMAIN fs = {} /\ DOMAIN docs = {}

(***************************************************************************)
(* Properties of the tabular loader                                        *)
(***************************************************************************)
HeaderRead == g_pc \in {"rows", "groups", "persons", "done"} /\ csv.exists /\ csv.lines # <<>>

\* the first line and the line of the k-th loaded record, as the reader splits them
HeaderRow == ParseLine(csv.lines[1], g_delimiter)
SourceRow(k) == ParseLine(csv.lines[g_src[k]], g_delimiter)

HeaderNames == { Lower(Strip(HeaderRow[j])) : j \in 1..Len(HeaderRow) }

\* the trimmed value of a row under the first header called name; empty when
\* no header is called so or the row is too short
Under(row, names) ==
    LET js == { j \in 1..Len(HeaderRow) : Lower(Strip(HeaderRow[j])) \in names }
    IN  IF js = {} THEN <<>>
        ELSE LET j == Min(js) IN IF j <= Len(row) THEN Strip(row[j]) ELSE <<>>

\* the trimmed value of column j (counted from 0) of a row
Column(row, j) == IF j + 1 <= Len(row) THEN Strip(row[j + 1]) ELSE <<>>

ByName(row) ==
    [Vorname |-> Under(row, {NVorname}), Nachname |-> Under(row, {NNachname}),
     Klasse |-> Under(row, {NKlasse}), Referenz |-> Under(row, {NReferenz})]

ByPosition(row) ==
    [Vorname |-> Column(row, 0), Nachname |-> Column(row, 1),
     Klasse |-> Column(row, 2), Referenz |-> Column(row, 3)]

FourFields(r) ==
    [Vorname |-> r.Vorname, Nachname |-> r.Nachname, Klasse |-> r.Klasse,
     Referenz |-> r.Referenz]

NoneBoundByName == HeaderNames \cap {NVorname, NNachname, NKlasse, NReferenz} = {}

\* C8 (first half): positional binding is used iff none of the headers for
\* given, family, class_code and reference is found by name.
C8_PositionalIffNoneBound ==
    HeaderRead => (bind.assume <=> NoneBoundByName)

\* C8: positional binding (columns 0..4) is used iff none of the four headers
\* is found by name; if at least one binds by name, every field of every record
\* is the value of its name-bound column.
C8_BindingMode ==
    HeaderRead =>
      /\ bind.assume <=> NoneBoundByName
      /\ \A k \in 1..Len(rows) :
            /\ NoneBoundByName =>
                 FourFields(rows[k]) = ByPosition(SourceRow(k))
                   /\ rows[k].Code = Column(SourceRow(k), 4)
            /\ ~NoneBoundByName => FourFields(rows[k]) = ByName(SourceRow(k))

FiveColumns(row) == Len(row) = 5 /\ (Strip(row[1]) # <<>> \/ Strip(row[2]) # <<>>)

Record5(row) ==
    [Anrede |-> <<>>, Vorname |-> Column(row, 0), Nachname |-> Column(row, 1),
     Klasse |-> Column(row, 2), Referenz |-> Column(row, 3), Code |-> Column(row, 4)]

LinesRead == g_line - 1

\* C9 as stated: a source of N five-column rows and no header row gives N
\* records, one per row in order, with the five fields of the row.
C9_HeaderlessRecoverable ==
    (/\ HeaderRead
     /\ g_pc # "rows" \/ g_line > Len(csv.lines)
     /\ \A i \in 1..Len(csv.lines) :
           /\ FiveColumns(ParseLine(csv.lines[i], g_delimiter))
           /\ ParseLine(csv.lines[i], g_delimiter) \in DataRows)
    => /\ Len(rows) = Len(csv.lines)
       /\ \A k \in 1..Len(rows) : rows[k] = Record5(ParseLine(csv.lines[k], g_delimiter))

\* C9 amended: the first row is always consumed as the header row.  When it
\* binds none of the four names, the N rows after it, each holding five columns
\* with a given or family name, give N records, one per row in order, with the
\* five fields equal to the trimmed columns of the row.
C9_PositionalRecovery ==
    (/\ HeaderRead
     /\ NoneBoundByName
     /\ \A i \in 2..LinesRead : FiveColumns(ParseLine(csv.lines[i], g_delimiter)))
    => /\ Len(rows) = LinesRead - 1
       /\ \A k \in 1..Len(rows) :
             /\ g_src[k] = k + 1
             /\ rows[k] = Record5(ParseLine(csv.lines[k + 1], g_delimiter))

\* a header-less source of three different rows: the first is lost as the
\* header, the two after it are recovered in order
C9_Witness ==
    /\ HeaderRead
    /\ g_line > Len(csv.lines)
    /\ Len(csv.lines) = 3
    /\ HeaderRow = RowFull
    /\ ParseLine(csv.lines[2], g_delimiter) = RowBen
    /\ ParseLine(csv.lines[3], g_delimiter) = RowFull
    /\ Len(rows) = 2
    /\ rows[1].Code = CsvCode2 /\ rows[2].Code = CsvCode

IsPermutedHeader ==
    /\ Len(HeaderRow) = 5
    /\ { HeaderRow[j] : j \in 1..5 } = { HVorname, HNachname, HKlasse, HReferenz, HLogin }

\* C10: under a header that is a permutation of Vorname, Nachname, Klasse,
\* Referenz, Login-Code, every loaded record's five fields are the trimmed
\* values standing under the corresponding header in its row, empty ones included.
C10_PermutedHeader ==
    (HeaderRead /\ IsPermutedHeader) =>
      \A k \in 1..Len(rows) :
          /\ FourFields(rows[k]) = ByName(SourceRow(k))
          /\ rows[k].Code = Under(SourceRow(k), {Lower(HLogin)})

\* the value of a row under the login-code header the loader prefers
UnderCode(row) ==
    LET cs == { c \in 1..Len(CodeNames) : CodeNames[c] \in HeaderNames }
    IN  IF cs = {} THEN <<>> ELSE Under(row, {CodeNames[Min(cs)]})

\* the record a row stands for under the binding mode of its file, a missing
\* column counting as the empty string
RecordOf(row) ==
    IF NoneBoundByName THEN Record5(row)
    ELSE [Anrede |-> Under(row, {NAnrede}), Vorname |-> Under(row, {NVorname}),
          Nachname |-> Under(row, {NNachname}), Klasse |-> Under(row, {NKlasse}),
          Referenz |-> Under(row, {NReferenz}), Code |-> UnderCode(row)]

Contributes(row) == RecordOf(row).Vorname # <<>> \/ RecordOf(row).Nachname # <<>>

DataLinesRead == 2..LinesRead

\* C11: for rows of every length no index error is raised and a missing column
\* is the empty string; a row is dropped iff it contributes neither given nor
\* family text, every other row yields exactly one record, in source order.
C11_SparseRows ==
    HeaderRead =>
      /\ g_result # "IndexError"
      /\ \A k \in 1..Len(rows) :
            /\ g_src[k] \in DataLinesRead
            /\ \A j \in 1..(k - 1) : g_src[j] < g_src[k]
            /\ rows[k] = RecordOf(SourceRow(k))
      /\ \A i \in DataLinesRead :
            (\E k \in 1..Len(rows) : g_src[k] = i)
              <=> Contributes(ParseLine(csv.lines[i], g_delimiter))

(***************************************************************************)
(* The pipeline: tables written by convert are the source of generate      *)
(***************************************************************************)
MaxEntries == 2

\* gui.py, _run_pdf: the chosen path becomes settings.csv_file and generate is
\* started on it; the path is one of the two tables of convert's output
\* directory, present or not
RunPdf ==
    /\ c_pc = "done"
    /\ g_pc = "idle"
    /\ \E f \in {SchuelerCsv, LehrkraefteCsv} :
          csv' = IF f \in DOMAIN fs
                 THEN [exists |-> TRUE, lines |-> fs[f], name |-> f]
                 ELSE [exists |-> FALSE, lines |-> <<>>, name |-> f]
    /\ g_pc' = "start"
    /\ UNCHANGED <<settings, g_delimiter, bind, g_line, rows, g_src, classes, g_k,
                   progress, docs, stdout, g_result>>
    /\ UNCHANGED <<cvars, svars, hvars, uvars>>

PipelinePersons ==
    { Person(<<TagStudentMixed>>, <<>>, Anna, Muster, <<>>, R1),
      Person(<<TagGuest, TagStudentUpper>>, Mail, <<>>, <<>>, FnCara, R2),
      Person(<<TagTeacher>>, <<>>, Ben, Muster, <<>>, IdHerr),
      Person(<<TagFaculty>>, <<>>, <<>>, <<>>, <<>>, R2) }

InitPipeline ==
    /\ xml \in XmlFiles(Documents(PipelinePersons, {Membership(GidKlasse7a, <<R1>>)},
                                  MaxEntries))
    /\ ConvertVarsAt("start")
    /\ csv = NoCsv
    /\ settings \in LoadSettings(";")
    /\ GenerateVarsAt("idle")
    /\ StickerIdle
    /\ HelperIdle
    /\ GuiIdle

NextPipeline == NextConvert \/ RunPdf \/ NextGenerate

SpecPipeline == InitPipeline /\ [][NextPipeline]_vars

\* the table generate was started on, and the records convert wrote to it
FromConvert == "name" \in DOMAIN csv /\ csv.exists

WrittenRecords ==
    IF csv.name = SchuelerCsv
    THEN [k \in 1..Len(schueler_rows) |->
            [Anrede |-> <<>>, Vorname |-> schueler_rows[k].Vorname,
             Nachname |-> schueler_rows[k].Nachname, Klasse |-> schueler_rows[k].Klasse,
             Referenz |-> schueler_rows[k].Referenz, Code |-> <<>>]]
    ELSE [k \in 1..Len(lehr_rows) |->
            [Anrede |-> lehr_rows[k].Anrede, Vorname |-> lehr_rows[k].Vorname,
             Nachname |-> lehr_rows[k].Nachname, Klasse |-> <<>>,
             Referenz |-> lehr_rows[k].Referenz, Code |-> <<>>]]

\* C12: loading a students or teachers table exactly as convert wrote it yields
\* one record per written row, in order, with the salutation, given, family,
\* class_code and reference of the extracted record and an empty login_code.
C12_RoundTrip ==
    (FromConvert /\ g_pc \in {"rows", "groups", "persons", "done"} /\ g_line > Len(csv.lines))
      => rows = WrittenRecords

(***************************************************************************)
(* generate on sources with salutations, classes and login codes           *)
(***************************************************************************)
HdrAnrede == <<HAnrede, HVorname, HNachname, HKlasse, HReferenz, HLogin>>

K7a    == <<"7","a">>
CsvLou == <<"I","d","a"," ","L","o","u">>

Stud7a    == <<<<>>, CsvGiven, CsvFamily, CsvKlasse, R1, CsvCode>>
Stud7aLou == <<<<>>, CsvLou, CsvFamily, K7a, R2, <<>>>>
StudNone  == <<<<>>, CsvBen, CsvLang, <<>>, R2, CsvCode2>>
StudOhne  == <<<<>>, CsvBen, CsvFamily, OhneKlasse, R1, <<>>>>
TeachNone == <<Herr, CsvBen, CsvLang, <<" ">>, IdHerr, CsvCode2>>
Teach7a   == <<Frau, CsvGiven, CsvLang, K7a, IdFrau, <<>>>>

GenRows == { Stud7a, Stud7aLou, StudNone, StudOhne, TeachNone, Teach7a }

\* three students of class 7a and two teachers without a class code
ExampleRows == <<Stud7a, TeachNone, Stud7aLou, Stud7a, TeachNone>>

\* grouped or per-person, students or teacher mode
GenSettings ==
    { Settings(";", Ja, Ja, <<"1">>), Settings(";", Ja, Nein, <<"2">>),
      Settings(";", <<>>, <<"J","a"," ">>, <<"1">>), Settings(";", Nein, Nein, <<"2">>) }

InitGenerate ==
    /\ csv \in { CsvFile(HdrAnrede, data, ";") : data \in SeqsUpTo(GenRows, MaxDataRows) }
                 \cup { CsvFile(HdrAnrede, ExampleRows, ";"), NoCsv }
    /\ settings \in GenSettings
    /\ GenerateVarsAt("start")
    /\ StickerIdle
    /\ HelperIdle
    /\ GuiIdle
    /\ xml = NoXml
    /\ ConvertVarsAt("idle")

SpecGenerate == InitGenerate /\ [][NextGenerate]_vars

(***************************************************************************)
(* Properties of the documents                                             *)
(***************************************************************************)
TeacherMode == Strip(settings.pdf_schoolgroup) = <<"2">>

TeacherKind(r) == TeacherMode \/ r.Anrede # <<>>

\* the group the claim assigns a record to
GroupOf(r) ==
    IF r.Klasse # <<>> THEN <<"class", r.Klasse>>
    ELSE IF TeacherKind(r) THEN <<"teachers", <<>>>>
    ELSE <<"no class", <<>>>>

GroupsOfRows == { GroupOf(rows[k]) : k \in 1..Len(rows) }

Grouped == g_pc = "groups" \/ (g_pc = "done" /\ classes # <<>>)

\* C13: in grouped mode every record is in exactly one group: the group of its
\* class code when that is non-empty, the dedicated teachers bucket when it is
\* empty and the record is teacher-kind, the dedicated no-class bucket otherwise;
\* one document is produced per non-empty group.
C13_Grouping ==
    Grouped =>
      /\ Len(classes) = Cardinality(GroupsOfRows)
      /\ \A G \in GroupsOfRows :
            \E g \in 1..Len(classes) :
                classes[g][2] = SelectSeq(rows, LAMBDA r : GroupOf(r) = G)
      /\ Cardinality(DOMAIN docs) = g_k - 1
      /\ g_pc = "done" => Cardinality(DOMAIN docs) = Cardinality(GroupsOfRows)

\* C13 (auxiliary): the grouping of C13 holds on every run in which no class
\* code equals one of the two reserved bucket keys.
C13_GroupingUnreserved ==
    (\A k \in 1..Len(rows) : rows[k].Klasse \notin {Lehrkraefte, OhneKlasse}) => C13_Grouping

CountBreaks(story) == Cardinality({ i \in 1..Len(story) : story[i] = PageBreak })

\* the parts of a story between its page breaks
RECURSIVE ChunksAcc(_, _)
ChunksAcc(story, cur) ==
    IF story = <<>> THEN <<cur>>
    ELSE IF Head(story) = PageBreak THEN <<cur>> \o ChunksAcc(Tail(story), <<>>)
    ELSE ChunksAcc(Tail(story), Append(cur, Head(story)))

Chunks(story) == ChunksAcc(story, <<>>)

GroupDoc(g) == docs[group_filename(classes[g][1])]

IsExample == csv = CsvFile(HdrAnrede, ExampleRows, ";")

\* C14: in grouped mode the document of a group of n >= 1 records holds the n
\* per-person content blocks in input order with exactly n-1 page breaks, one
\* between two consecutive blocks and none after the last; three students of
\* class "7a" and two teachers without class code give exactly two documents,
\* with 2 and 1 page breaks.
C14_PageBreaks ==
    Grouped =>
      /\ \A g \in 1..(g_k - 1) :
            LET people == classes[g][2]
                n      == Len(people)
            IN  /\ n >= 1
                /\ people = SelectSeq(rows, LAMBDA r : class_of(r, settings) = classes[g][1])
                /\ CountBreaks(GroupDoc(g)) = n - 1
                /\ GroupDoc(g)[Len(GroupDoc(g))] # PageBreak
                /\ Chunks(GroupDoc(g)) =
                     [i \in 1..n |-> build_anton_story(people[i], settings, LogoReadable)]
      /\ (IsExample /\ g_pc = "done") =>
            /\ DOMAIN docs = {group_filename(K7a), group_filename(Lehrkraefte)}
            /\ CountBreaks(docs[group_filename(K7a)]) = 2
            /\ CountBreaks(docs[group_filename(Lehrkraefte)]) = 1

\* the example source was rendered in grouped mode for students: two documents
C14_Witness ==
    /\ IsExample /\ g_pc = "done" /\ g_result = "returned" /\ Grouped
    /\ ~TeacherMode
    /\ Len(rows) = 5
    /\ Cardinality(DOMAIN docs) = 2
    /\ CountBreaks(docs[group_filename(K7a)]) = 2

PerPerson == g_pc \in {"persons", "done"} /\ rows # <<>> /\ ~one_doc_of(settings)

RecordsRendered == IF g_pc = "done" THEN Len(rows) ELSE g_k - 1

\* C15: in per-person mode there is one document per loaded record, each with
\* exactly that person's content block: after N records there are N distinct
\* documents, also when records share (class_code, family, first given token).
C15_OneDocPerRecord ==
    PerPerson =>
      /\ Cardinality(DOMAIN docs) = RecordsRendered
      /\ \A k \in 1..RecordsRendered :
            \E f \in DOMAIN docs : docs[f] = build_anton_story(rows[k], settings, LogoReadable)

(***************************************************************************)
(* Properties of the content of one person                                 *)
(***************************************************************************)
\* the content blocks of single persons standing in the documents built so far
AllChunks ==
    UNION { { Chunks(docs[f])[i] : i \in 1..Len(Chunks(docs[f])) } : f \in DOMAIN docs }

\* the loaded records a content block list was built from
RecordsOf(c) ==
    { k \in 1..Len(rows) : build_anton_story(rows[k], settings, LogoReadable) = c }

TextsOf(c) == { c[i].text : i \in { j \in 1..Len(c) : c[j].kind = "Paragraph" } }

FormalTexts   == { SieAccount, SieBrowser, SieApp, SieCode, SieScan }
InformalTexts == { DuAccount, DuBrowser, DuApp, DuCode, DuScan }

\* C16: the content of a record is in the formal register in all audience-
\* dependent texts iff the teacher-mode flag is set or the record's salutation
\* is non-empty, in the informal register otherwise; all audience-dependent
\* blocks of one record are in the same register.
C16_Register ==
    \A c \in AllChunks :
        /\ RecordsOf(c) # {}
        /\ \A k \in RecordsOf(c) :
              IF TeacherKind(rows[k])
              THEN /\ TextsOf(c) \cap InformalTexts = {}
                   /\ {SieAccount, SieBrowser, SieApp} \subseteq TextsOf(c)
                   /\ rows[k].Code # <<>> => {SieCode, SieScan} \subseteq TextsOf(c)
              ELSE /\ TextsOf(c) \cap FormalTexts = {}
                   /\ {DuAccount, DuBrowser, DuApp} \subseteq TextsOf(c)
                   /\ rows[k].Code # <<>> => {DuCode, DuScan} \subseteq TextsOf(c)

\* students mode: a record with a salutation and a login code was rendered
\* formally next to a record without salutation rendered informally
C16_Witness ==
    /\ ~TeacherMode
    /\ \E c, d \in AllChunks :
          /\ \E k \in RecordsOf(c) : rows[k].Anrede # <<>> /\ rows[k].Code # <<>>
          /\ SieScan \in TextsOf(c)
          /\ \E k \in RecordsOf(d) : rows[k].Anrede = <<>> /\ rows[k].Code # <<>>
          /\ DuScan \in TextsOf(d)

\* the text of the greeting block: the first paragraph
GreetingOf(c) == c[Min({ j \in 1..Len(c) : c[j].kind = "Paragraph" })].text

StartsWith(t, prefix) == Len(t) >= Len(prefix) /\ SubSeq(t, 1, Len(prefix)) = prefix

\* C17: the greeting of every record with a non-empty salutation uses that
\* salutation; only records without a salutation get the generic greeting.
C17_GreetingUsesSalutation ==
    \A c \in AllChunks :
        \A k \in RecordsOf(c) :
            IF rows[k].Anrede # <<>>
            THEN StartsWith(GreetingOf(c), rows[k].Anrede \o <<" ">>)
            ELSE StartsWith(GreetingOf(c), Hallo \o <<" ">>)

\* the blocks of a content list that carry content: no spacing, no logo
Content(c) == SelectSeq(c, LAMBDA b : b.kind \notin {"Spacer", "Image"})

IsLink(b)      == b.kind = "Paragraph" /\ b.size = 18
IsLoginCode(b) == b.kind = "Paragraph" /\ b.size = 24
IsQr(b)        == b.kind = "QR"
IsDivider(b)   == b.kind = "Divider"
IsSummary(b)   == b.kind = "Sticker"
IsText(b)      == b.kind = "Paragraph" /\ b.size = 14

Positions(p, Is(_)) == { i \in 1..Len(p) : Is(p[i]) }

\* C18: the content of a record is ordered greeting, onboarding instructions,
\* login link, [login code, scannable encoding], divider, summary block; the
\* login code and the scannable encoding are both present when the trimmed code
\* is non-empty and both absent when it is empty; the divider and the summary
\* block are always present and always last.
C18_BlockOrder ==
    \A c \in AllChunks :
        \A k \in RecordsOf(c) :
            LET p    == Content(c)
                n    == Len(p)
                code == Strip(rows[k].Code)
                link == Positions(p, IsLink)
                lc   == Positions(p, IsLoginCode)
                qr   == Positions(p, IsQr)
            IN  /\ n >= 6
                /\ p[1].text = GreetingOf(c)
                /\ Cardinality(link) = 1
                /\ \A l \in link : l > 2 /\ \A i \in 1..(l - 1) : IsText(p[i])
                /\ {Willkommen} \cup ({SieAccount, DuAccount} \cap TextsOf(c))
                     \subseteq { p[i].text : i \in 2..(Min(link) - 1) }
                /\ IsDivider(p[n - 1]) /\ Positions(p, IsDivider) = {n - 1}
                /\ IsSummary(p[n]) /\ Positions(p, IsSummary) = {n}
                /\ IF code # <<>>
                   THEN /\ Cardinality(lc) = 1 /\ Cardinality(qr) = 1
                        /\ \A a \in link, b \in lc, d \in qr :
                              /\ a < b /\ b < d /\ d < n - 1
                              /\ p[b].text = code /\ p[d].text = code
                   ELSE lc = {} /\ qr = {}

\* a record with a login code and a record without one were both rendered
C18_Witness ==
    \E c, d \in AllChunks :
        /\ \E k \in RecordsOf(c) : rows[k].Code # <<>>
        /\ Positions(Content(c), IsQr) # {}
        /\ \E k \in RecordsOf(d) : rows[k].Code = <<>>
        /\ Positions(Content(d), IsQr) = {}
        /\ IsSummary(Content(d)[Len(Content(d))])

(***************************************************************************)
(* _sticker on its own arguments                                           *)
(***************************************************************************)
Code8    == <<"A","B","C","D","1","2","3","4">>
Code12   == Code8 \o <<"-","5","6","7">>
CodeLong == Code12 \o Code12 \o Code12
NameLong == Code12 \o Code12 \o Code8

StickerCodes      == { <<>>, CsvCode, Code8, Code12, CodeLong }
StickerFirstNames == { <<>>, CsvGiven, NameLong }
StickerLastNames  == { <<>>, CsvFamily }

Logo(iw, ih) == [readable |-> TRUE, iw |-> iw, ih |-> ih]

\* an image that cannot be read, and images of several aspect ratios
Logos == { NoLogo, Logo(1, 1), Logo(1, 2), Logo(2, 1), Logo(5, 2), Logo(13, 5), Logo(3, 1) }

InitSticker ==
    /\ \E f \in StickerFirstNames, l \in StickerLastNames, c \in StickerCodes, g \in Logos :
          StickerVarsAt("start", f, l, c, g)
    /\ HelperIdle
    /\ GuiIdle
    /\ xml = NoXml
    /\ ConvertVarsAt("idle")
    /\ csv = NoCsv
    /\ settings = Settings(";", Nein, Ja, <<"1">>)
    /\ GenerateVarsAt("idle")

SpecSticker == InitSticker /\ [][NextSticker]_vars

(***************************************************************************)
(* Properties of the layout fitter                                         *)
(***************************************************************************)
CandidateSet == {28, 26, 24, 22, 20, 18, 16, 14, 12, 10, 9, 8}

\* the block is 100 mm wide, the encoding column 30 mm, the logo 25 mm high at
\* the aspect ratio of its image (25 mm wide without a readable image); what is
\* left for the middle column, in mm as a fraction
ColumnLeft(logo) ==
    IF logo.readable THEN <<(100 - 30) * logo.ih - 25 * logo.iw, logo.ih>>
    ELSE <<100 - 30 - 25, 1>>

\* a text measured w/1000 point wide fits the column with its padding of 6
\* point on either side
FitsColumn(w, col) == (w + 12000) * 127 * col[2] <= col[1] * 360000

NameLine1 == name_lines(stk.firstname, stk.lastname)[1]
NameLine2 == name_lines(stk.firstname, stk.lastname)[2]

\* the code at size c and both name lines at their size 8 fit the column
AllFitAt(c) ==
    /\ FitsColumn(stringWidth(stk.code, c), ColumnLeft(stk.logo))
    /\ FitsColumn(stringWidth(NameLine1, 8), ColumnLeft(stk.logo))
    /\ FitsColumn(stringWidth(NameLine2, 8), ColumnLeft(stk.logo))

FittingSizes == { c \in CandidateSet : AllFitAt(c) }

Largest(S) == CHOOSE x \in S : \A y \in S : y <= x

\* C19: the fitter returns the largest of the candidates 28, 26, ..., 9, 8 at
\* which the measured widths of the code and of each name line all fit the
\* column left beside logo and encoding column; when no candidate fits it
\* returns 8, without error.  When the code does not fit at 28 the result is
\* strictly smaller than 28.
C19_LargestFitting ==
    stk.pc = "done" =>
      /\ stk.code_font \in CandidateSet
      /\ stk.code_font = IF FittingSizes = {} THEN 8 ELSE Largest(FittingSizes)
      /\ ~FitsColumn(stringWidth(stk.code, 28), ColumnLeft(stk.logo)) => stk.code_font < 28

\* a code too wide at 28, 26 and 24 was set at 22
C19_Witness ==
    /\ stk.pc = "done"
    /\ stk.code = Code8 /\ stk.logo = Logo(1, 1)
    /\ ~AllFitAt(28) /\ ~AllFitAt(24)
    /\ stk.code_font = 22

EmptyArguments == stk.code = <<>> /\ stk.firstname = <<>> /\ stk.lastname = <<>>

\* C20 as stated: for an empty code and empty names the fitter selects 28, for
\* every logo image.
C20_EmptySelectsLargest ==
    (stk.pc = "done" /\ EmptyArguments) => stk.code_font = 28

\* C20 amended: for an empty code and empty names the fitter never errors and
\* selects 28 whenever the column left beside the logo holds a blank name line
\* of size 8 with its padding: for an unreadable logo and for every logo up to
\* 2.5 times as wide as high.  For a logo at least 3 times as wide as high
\* nothing fits and it returns 8.
C20_EmptyFitsUnlessWideLogo ==
    (stk.pc = "done" /\ EmptyArguments) =>
      /\ stk.code_font \in {28, 8}
      /\ stk.code_font = 28 <=> FitsColumn(stringWidth(<<" ">>, 8), ColumnLeft(stk.logo))
      /\ (~stk.logo.readable \/ 2 * stk.logo.iw <= 5 * stk.logo.ih) => stk.code_font = 28
      /\ (stk.logo.readable /\ stk.logo.iw >= 3 * stk.logo.ih) => stk.code_font = 8

\* empty code and names beside a logo three times as wide as high: size 8
C20_Witness ==
    /\ stk.pc = "done" /\ EmptyArguments
    /\ stk.logo = Logo(3, 1)
    /\ stk.code_font = 8

(***************************************************************************)
(* converter.py: the helpers called on their own                           *)
(***************************************************************************)
MaxText == 3

\* _norm_klasse(raw)
CallNormKlasse ==
    /\ call.pc = "called"
    /\ call.fn = "_norm_klasse"
    /\ call' = [call EXCEPT !.result = norm_klasse(call.arg), !.pc = "returned"]
    /\ UNCHANGED <<cvars, gvars, svars, uvars>>

\* _anrede_from_reference(ref)
CallAnrede ==
    /\ call.pc = "called"
    /\ call.fn = "_anrede_from_reference"
    /\ call' = [call EXCEPT !.result = anrede_from_reference(call.arg), !.pc = "returned"]
    /\ UNCHANGED <<cvars, gvars, svars, uvars>>

\* _split_name(person, ns)
CallSplitName ==
    /\ call.pc = "called"
    /\ call.fn = "_split_name"
    /\ call' = [call EXCEPT !.result = split_name(call.arg), !.pc = "returned"]
    /\ UNCHANGED <<cvars, gvars, svars, uvars>>

\* _build_membership_class_map(root, ns), the argument being root.findall("ns:membership")
CallBuildMap ==
    /\ call.pc = "called"
    /\ call.fn = "_build_membership_class_map"
    /\ call' = [call EXCEPT !.result = build_membership_class_map(call.arg),
                            !.pc = "returned"]
    /\ UNCHANGED <<cvars, gvars, svars, uvars>>

NextHelpers == CallNormKlasse \/ CallAnrede \/ CallSplitName \/ CallBuildMap

\* raw class codes: digits, letters of both cases, blanks and tabs
CodeChars == {"0", "7", "B", "b", " ", "\t"}
ClassCodes == SeqsUpTo(CodeChars, MaxText)

\* references: dashes, the two markers, another character and a blank
RefChars == {"-", "3", "4", "X", " "}
References == SeqsUpTo(RefChars, MaxText + 1)

\* entries with and without structured names, and full names of up to three tokens
NameChars == {"A", "b", " "}
FullNames == SeqsUpTo(NameChars, MaxText + 1)
NamedPersons ==
    { Person(<<>>, <<>>, g, f, n, R1) : g \in {<<>>, <<"G">>}, f \in {<<>>, <<"F">>},
                                        n \in FullNames }

\* membership records with and without a class code, listing up to two members
MaxMemberships == 2
P1 == <<"p","1">>
P2 == <<"p","2">>
MemberLists == SeqsUpTo({P1, P2}, 2) \cup { <<<<>>>> }
GidKlasse8 == <<"K","l","a","s","s","e","-","0","8">>
MembershipRecords ==
    { Membership(g, m) : g \in {GidKlasse7a, GidKlasse8, GidKurs}, m \in MemberLists }
MembershipLists == SeqsUpTo(MembershipRecords, MaxMemberships)

HelperCalls ==
    ({"_norm_klasse"} \X ClassCodes) \cup ({"_anrede_from_reference"} \X References)
      \cup ({"_split_name"} \X NamedPersons)
      \cup ({"_build_membership_class_map"} \X MembershipLists)

InitHelpers ==
    /\ \E c \in HelperCalls : HelperVarsAt("called", c[1], c[2])
    /\ xml = NoXml
    /\ ConvertVarsAt("idle")
    /\ csv = NoCsv
    /\ settings = Settings(";", Nein, Ja, <<"1">>)
    /\ GenerateVarsAt("idle")
    /\ StickerIdle
    /\ GuiIdle

SpecHelpers == InitHelpers /\ [][NextHelpers]_vars

Returned(fn) == call.pc = "returned" /\ call.fn = fn

NoWhitespace(s) == \A i \in 1..Len(s) : ~IsSpace(s[i])

C21_NormBlanks ==
    Returned("_norm_klasse") =>
        /\ ~Contains(call.result, " ")
        /\ (Len(call.arg) = 2 /\ call.arg[1] = "0" /\ IsDigit(call.arg[2])
              => call.result = <<call.arg[2]>>)
        /\ (call.arg = <<>> => call.result = <<>>)

ZeroDigit(s) == Len(s) = 2 /\ s[1] = "0" /\ IsDigit(s[2])

\* the input with its last character lower-cased
TrailingLowered(s) == [i \in 1..Len(s) |-> IF i = Len(s) THEN LowerChar(s[i]) ELSE s[i]]

EndsInLetter(s) == s # <<>> /\ IsAlpha(s[Len(s)])

\* C22: for every class-code input ending in an alphabetic character, of any
\* length including a single letter, normalization lower-cases exactly that
\* trailing character and leaves every other character unchanged; an input not
\* ending in a letter is returned with its characters unchanged.  (Stated for
\* inputs free of whitespace; "0"+digit is the collapse of C21.)
C22_TrailingLetter ==
    Returned("_norm_klasse") /\ NoWhitespace(call.arg) =>
        /\ (EndsInLetter(call.arg) => call.result = TrailingLowered(call.arg))
        /\ (~EndsInLetter(call.arg) /\ ~ZeroDigit(call.arg) => call.result = call.arg)

\* what holds of the code: the same for inputs of two or more characters, and
\* a single letter is returned as it is
C22_TrailingLetterOfTwo ==
    Returned("_norm_klasse") /\ NoWhitespace(call.arg) =>
        /\ (EndsInLetter(call.arg) /\ Len(call.arg) >= 2
              => call.result = TrailingLowered(call.arg))
        /\ (~EndsInLetter(call.arg) /\ ~ZeroDigit(call.arg) => call.result = call.arg)
        /\ (Len(call.arg) = 1 => call.result = call.arg)

\* the reference as the function looks at it, and its dashes
Trimmed(ref) == Strip(ref)
DashesOf(s) == { i \in 1..Len(s) : s[i] = "-" }
FirstDash(s) == CHOOSE i \in DashesOf(s) : \A j \in DashesOf(s) : i <= j

\* the last position of the second segment: before the second dash, or the end
MiddleEnd(s) ==
    LET later == { i \in DashesOf(s) : i > FirstDash(s) }
    IN  IF later = {} THEN Len(s)
        ELSE (CHOOSE i \in later : \A j \in later : i <= j) - 1

\* the second dash-separated segment exists, is not empty and ends in c
MiddleEndsIn(ref, c) ==
    LET s == Trimmed(ref)
    IN  /\ DashesOf(s) # {}
        /\ MiddleEnd(s) > FirstDash(s)
        /\ s[MiddleEnd(s)] = c

\* C23: for every reference the derived salutation is the male marker iff the
\* reference has at least two dash-separated segments and the second segment
\* ends in '3', the female marker iff it ends in '4', and empty in every other
\* case; the call always returns.
C23_Salutation ==
    Returned("_anrede_from_reference") =>
        /\ call.result \in {Herr, Frau, <<>>}
        /\ call.result = Herr <=> MiddleEndsIn(call.arg, "3")
        /\ call.result = Frau <=> MiddleEndsIn(call.arg, "4")

\* a reference of three segments whose middle one ends in '3' has been answered
C23_Witness ==
    /\ Returned("_anrede_from_reference")
    /\ call.arg = <<"X","-","3","-">>
    /\ call.result = Herr

\* the class code a membership record stands for, and whether it lists an identifier
DerivedClass(m) == norm_klasse(klasse_from_membership_id(Strip(m.id)))
ListsMember(m, id) == \E j \in 1..Len(m.members) : Strip(m.members[j]) = id

\* the records, by position, that have a class code and list the identifier
SourcesOf(ms, id) ==
    { k \in 1..Len(ms) : DerivedClass(ms[k]) # <<>> /\ ListsMember(ms[k], id) }

LastOf(S) == CHOOSE k \in S : \A j \in S : j <= k

\* C24: the lookup maps each member identifier to the class code of the last
\* membership record, in source order, that has a non-empty derived class code
\* and lists that identifier; a record whose derived class code is empty
\* contributes no mapping and neither erases nor overwrites an earlier one.
C24_LastMembershipWins ==
    Returned("_build_membership_class_map") =>
        LET ms == call.arg
            mapped == { id \in { P1, P2 } : SourcesOf(ms, id) # {} }
        IN  /\ DOMAIN call.result = mapped
            /\ \A id \in mapped :
                  call.result[id] = DerivedClass(ms[LastOf(SourcesOf(ms, id))])

\* two records list the same member under different class codes, and a third
\* member is listed by the first only
C24_Witness ==
    /\ Returned("_build_membership_class_map")
    /\ call.arg = << Membership(GidKlasse7a, <<P1, P2>>), Membership(GidKlasse8, <<P1>>) >>
    /\ call.result[P1] = <<"8">>
    /\ call.result[P2] = <<"7","a">>

\* a record without class code follows one with a class code for the same member
C24_WitnessSkipped ==
    /\ Returned("_build_membership_class_map")
    /\ call.arg = << Membership(GidKlasse7a, <<P1>>), Membership(GidKurs, <<P1>>) >>
    /\ call.result[P1] = <<"7","a">>

\* the entry has no structured name but a combined full name
OnlyFullName(p) == Strip(p.given) = <<>> /\ Strip(p.family) = <<>> /\ Strip(p.fn) # <<>>

BlanksOf(s) == { i \in 1..Len(s) : s[i] = " " }
FirstBlank(s) == CHOOSE i \in BlanksOf(s) : \A j \in BlanksOf(s) : i <= j

\* the first space-separated token of a full name, and what follows its separator
FirstToken(s) == IF BlanksOf(s) = {} THEN s ELSE SubSeq(s, 1, FirstBlank(s) - 1)
Remainder(s) == IF BlanksOf(s) = {} THEN <<>> ELSE SubSeq(s, FirstBlank(s) + 1, Len(s))

\* C25: for an entry with only a full name the family name is the
\* first space-separated token of the full name and the given name is the
\* remainder, for every full name including one of a single token.
C25_FullNameSplit ==
    Returned("_split_name") /\ OnlyFullName(call.arg) =>
        call.result = << Remainder(Strip(call.arg.fn)), FirstToken(Strip(call.arg.fn)) >>

\* what holds of the code: the same for a full name of two or more tokens; a
\* full name of a single token becomes the given name, the family name is empty
C25_FullNameSplitTokens ==
    Returned("_split_name") /\ OnlyFullName(call.arg) =>
        LET full == Strip(call.arg.fn)
        IN  IF BlanksOf(full) # {}
            THEN call.result = << Remainder(full), FirstToken(full) >>
            ELSE call.result = << full, <<>> >>

\* C26: the loader substitutes columns 0/1 for an empty given/family value only
\* in positional fallback mode; when fields are bound by name, a given or
\* family value that is empty under its header stays empty and is never
\* replaced by the content of column 0 or 1.
C26_NoSubstitutionByName ==
    HeaderRead =>
        \A k \in 1..Len(rows) :
            /\ bind.assume =>
                 /\ rows[k].Vorname = Column(SourceRow(k), 0)
                 /\ rows[k].Nachname = Column(SourceRow(k), 1)
            /\ ~bind.assume =>
                 /\ rows[k].Vorname = Under(SourceRow(k), {NVorname})
                 /\ rows[k].Nachname = Under(SourceRow(k), {NNachname})

\* the summary blocks of a content block list
SummaryBlocks(c) == { c[i] : i \in Positions(c, IsSummary) }

\* the given name up to its first whitespace
FirstGiven(name) ==
    LET ws == { i \in 1..Len(name) : IsSpace(name[i]) }
    IN  IF ws = {} THEN name ELSE SubSeq(name, 1, Min(ws) - 1)

\* C27: the summary block of every record carries a scannable pattern whose
\* payload is the login code when the code is non-empty and otherwise the
\* string "<first-name> <last-name>" built from the record's given and family
\* name; the payload is never empty.
C27_PayloadNames ==
    \A c \in AllChunks :
        \A k \in RecordsOf(c) :
            /\ SummaryBlocks(c) # {}
            /\ \A b \in SummaryBlocks(c) :
                  /\ b.text # <<>>
                  /\ b.text = IF rows[k].Code # <<>> THEN rows[k].Code
                              ELSE rows[k].Vorname \o <<" ">> \o rows[k].Nachname

\* C27 amended: the payload is the login code when the code is non-empty and
\* otherwise the first whitespace-separated token of the given name, a blank
\* and the family name; the payload is never empty.
C27_PayloadFirstGiven ==
    \A c \in AllChunks :
        \A k \in RecordsOf(c) :
            /\ SummaryBlocks(c) # {}
            /\ \A b \in SummaryBlocks(c) :
                  /\ b.text # <<>>
                  /\ b.text = IF rows[k].Code # <<>> THEN rows[k].Code
                              ELSE FirstGiven(rows[k].Vorname) \o <<" ">>
                                     \o rows[k].Nachname

\* a record without code whose given name has two tokens, and a record with a
\* code, have both been rendered
C27_Witness ==
    /\ \E c \in AllChunks : \E k \in RecordsOf(c) :
          rows[k].Code = <<>> /\ rows[k].Vorname = CsvLou
    /\ \E c \in AllChunks : \E k \in RecordsOf(c) : rows[k].Code # <<>>

(***************************************************************************)
(* gui.py: start requests, the worker thread and the log queue            *)
(***************************************************************************)
MaxRequests == 2

Starte    == "Starte"
Fertig    == "Fertig"
Traceback == "Traceback"

\* mutant: the handlers do not look at the running flag
request_outcome_NoGuard(flag, ok) == IF ~ok THEN "warned" ELSE "started"

\* _run_convert lines 418-423, _run_pdf lines 429-442: what a start request does
request_outcome(flag, ok) ==
    IF flag THEN "ignored" ELSE IF ~ok THEN "warned" ELSE "started"

\* the path fields of the window: empty, a .csv file, a file of another type
Paths == { "", "x.csv", "x.txt" }

\* the handler returns, or goes on into _launch_thread(fn, s)
Answer(o, fn) ==
    /\ requests' = [made |-> requests.made + 1,
                    ignored |-> requests.ignored + (IF o = "ignored" THEN 1 ELSE 0)]
    /\ IF o = "started"
       THEN m_pc' = "set_running" /\ m_fn' = fn
       ELSE UNCHANGED <<m_pc, m_fn>>

\* _run_convert, lines 417-426, called by the Tk main thread between two events
RunConvertRequest ==
    /\ m_pc = "mainloop"
    /\ requests.made < MaxRequests
    /\ \E path \in Paths : Answer(request_outcome(running, path # ""), "_task_convert")
    /\ UNCHANGED <<running, btn_state, log_q, txt, sys_stdout, environ, threads>>
    /\ UNCHANGED <<cvars, gvars, svars, hvars>>

\* _run_pdf, lines 428-442
RunPdfRequest ==
    /\ m_pc = "mainloop"
    /\ requests.made < MaxRequests
    /\ \E path \in Paths : Answer(request_outcome(running, path = "x.csv"), "_task_pdf_csv")
    /\ UNCHANGED <<running, btn_state, log_q, txt, sys_stdout, environ, threads>>
    /\ UNCHANGED <<cvars, gvars, svars, hvars>>

\* _launch_thread line 446, _set_running(True): the flag, both buttons disabled
LaunchSetRunning ==
    /\ m_pc = "set_running"
    /\ running' = TRUE
    /\ btn_state' = "disabled"
    /\ m_pc' = "println"
    /\ UNCHANGED <<log_q, txt, sys_stdout, environ, m_fn, threads, requests>>
    /\ UNCHANGED <<cvars, gvars, svars, hvars>>

\* _launch_thread line 447: self._println("Starte...")
LaunchPrintln ==
    /\ m_pc = "println"
    /\ log_q' = Append(log_q, Starte)
    /\ m_pc' = "start"
    /\ UNCHANGED <<running, btn_state, txt, sys_stdout, environ, m_fn, threads, requests>>
    /\ UNCHANGED <<cvars, gvars, svars, hvars>>

\* _launch_thread lines 449-450: the worker thread is created and started
LaunchStart ==
    /\ m_pc = "start"
    /\ threads' = Append(threads, [pc |-> "redirect", fn |-> m_fn, old_out |-> "none",
                                   old_env |-> <<>>, raised |-> FALSE])
    /\ m_pc' = "mainloop"
    /\ UNCHANGED <<running, btn_state, log_q, txt, sys_stdout, environ, m_fn, requests>>
    /\ UNCHANGED <<cvars, gvars, svars, hvars>>

\* _drain_log_queue, lines 494-501: the queue is emptied into the log widget
DrainLogQueue ==
    /\ m_pc = "mainloop"
    /\ log_q # <<>>
    /\ txt' = txt \o log_q
    /\ log_q' = <<>>
    /\ UNCHANGED <<running, btn_state, sys_stdout, environ, m_pc, m_fn, threads, requests>>
    /\ UNCHANGED <<cvars, gvars, svars, hvars>>

\* _TextStream.write: text printed goes to the queue when the stream is redirected
write(q, stream, text) == IF stream = "gui" THEN Append(q, text) ELSE q

At(t, pc) == t \in 1..Len(threads) /\ threads[t].pc = pc

\* _run_captured lines 454-457: the streams are saved and redirected
WorkerRedirect(t) ==
    /\ At(t, "redirect")
    /\ threads' = [threads EXCEPT ![t].pc = "set_env", ![t].old_out = sys_stdout]
    /\ sys_stdout' = "gui"
    /\ UNCHANGED <<running, btn_state, log_q, txt, environ, m_pc, m_fn, requests>>
    /\ UNCHANGED <<cvars, gvars, svars, hvars>>

\* lines 458-459: NONINTERACTIVE is saved and set to "1"
WorkerSetEnv(t) ==
    /\ At(t, "set_env")
    /\ threads' = [threads EXCEPT ![t].pc = "body", ![t].old_env = environ]
    /\ environ' = <<"1">>
    /\ UNCHANGED <<running, btn_state, log_q, txt, sys_stdout, m_pc, m_fn, requests>>
    /\ UNCHANGED <<cvars, gvars, svars, hvars>>

\* line 461: fn(s) returns
TaskReturn(t) ==
    /\ At(t, "body")
    /\ threads' = [threads EXCEPT ![t].pc = "restore_env"]
    /\ UNCHANGED <<running, btn_state, log_q, txt, sys_stdout, environ, m_pc, m_fn,
                   requests>>
    /\ UNCHANGED <<cvars, gvars, svars, hvars>>

\* lines 462-463: fn(s) raises and the traceback is printed.  _task_convert
\* catches every Exception itself (lines 484-485), _task_pdf_csv lets it through
TaskRaise(t) ==
    /\ At(t, "body")
    /\ threads[t].fn = "_task_pdf_csv"
    /\ threads' = [threads EXCEPT ![t].pc = "restore_env", ![t].raised = TRUE]
    /\ log_q' = write(log_q, sys_stdout, Traceback)
    /\ UNCHANGED <<running, btn_state, txt, sys_stdout, environ, m_pc, m_fn, requests>>
    /\ UNCHANGED <<cvars, gvars, svars, hvars>>

\* mutant: NONINTERACTIVE is removed, whatever it was before
WorkerRestoreEnv_Pop(t) ==
    /\ At(t, "restore_env")
    /\ threads' = [threads EXCEPT ![t].pc = "restore_out"]
    /\ environ' = <<>>
    /\ UNCHANGED <<running, btn_state, log_q, txt, sys_stdout, m_pc, m_fn, requests>>
    /\ UNCHANGED <<cvars, gvars, svars, hvars>>

\* finally, lines 466-469: NONINTERACTIVE is removed or set back
WorkerRestoreEnv(t) ==
    /\ At(t, "restore_env")
    /\ threads' = [threads EXCEPT ![t].pc = "restore_out"]
    /\ environ' = threads[t].old_env
    /\ UNCHANGED <<running, btn_state, log_q, txt, sys_stdout, m_pc, m_fn, requests>>
    /\ UNCHANGED <<cvars, gvars, svars, hvars>>

\* lines 470-471: sys.stdout = old_out, sys.stderr = old_err
WorkerRestoreOut(t) ==
    /\ At(t, "restore_out")
    /\ threads' = [threads EXCEPT ![t].pc = "set_running"]
    /\ sys_stdout' = threads[t].old_out
    /\ UNCHANGED <<running, btn_state, log_q, txt, environ, m_pc, m_fn, requests>>
    /\ UNCHANGED <<cvars, gvars, svars, hvars>>

\* line 472, _set_running(False): the flag, both buttons enabled
WorkerSetRunning(t) ==
    /\ At(t, "set_running")
    /\ threads' = [threads EXCEPT ![t].pc = "println"]
    /\ running' = FALSE
    /\ btn_state' = "normal"
    /\ UNCHANGED <<log_q, txt, sys_stdout, environ, m_pc, m_fn, requests>>
    /\ UNCHANGED <<cvars, gvars, svars, hvars>>

\* line 473: self._println("Fertig.")
WorkerPrintln(t) ==
    /\ At(t, "println")
    /\ threads' = [threads EXCEPT ![t].pc = "done"]
    /\ log_q' = Append(log_q, Fertig)
    /\ UNCHANGED <<running, btn_state, txt, sys_stdout, environ, m_pc, m_fn, requests>>
    /\ UNCHANGED <<cvars, gvars, svars, hvars>>

\* one step of the worker thread t, _run_captured
Worker(t) ==
    \/ WorkerRedirect(t) \/ WorkerSetEnv(t) \/ TaskReturn(t) \/ TaskRaise(t)
    \/ WorkerRestoreEnv(t) \/ WorkerRestoreOut(t) \/ WorkerSetRunning(t)
    \/ WorkerPrintln(t)

MainThread ==
    RunConvertRequest \/ RunPdfRequest \/ LaunchSetRunning \/ LaunchPrintln
      \/ LaunchStart \/ DrainLogQueue

NextGui == MainThread \/ \E t \in 1..MaxRequests : Worker(t)

\* the process was started with NONINTERACTIVE unset or set to "0"
InitGui ==
    /\ \E env \in { <<>>, <<"0">> } : GuiVarsAt(env)
    /\ xml = NoXml
    /\ ConvertVarsAt("idle")
    /\ csv = NoCsv
    /\ settings = Settings(";", Nein, Ja, <<"1">>)
    /\ GenerateVarsAt("idle")
    /\ StickerIdle
    /\ HelperIdle

SpecGui == InitGui /\ [][NextGui]_vars

\* _launch_thread, lines 445-450, once the handler has entered it
Launch == LaunchSetRunning \/ LaunchPrintln \/ LaunchStart

\* a handler that has been called runs to its end; every started thread is
\* scheduled again and again, and a task body ends: convert and generate are
\* finite loops, and NONINTERACTIVE=1 keeps them from waiting for the console
SpecGuiFair ==
    SpecGui /\ WF_vars(Launch) /\ \A t \in 1..MaxRequests : WF_vars(Worker(t))

Started == 1..Len(threads)

\* the threads whose task body is executing
InBody == { t \in Started : threads[t].pc = "body" }

\* C28: under any interleaving of start requests and worker steps at most one
\* task body executes at a time; a start request made while the running flag
\* is true starts no thread; the flag is true before a worker thread is started.
C28_OneTaskBody ==
    /\ [](Cardinality(InBody) <= 1)
    /\ [][requests'.made > requests.made /\ running
            => m_pc' = "mainloop" /\ threads' = threads /\ log_q' = log_q]_vars
    /\ [][Len(threads') > Len(threads) => running /\ running']_vars

\* a request was ignored while a task body was executing
C28_Witness ==
    /\ requests.ignored >= 1
    /\ InBody # {}
    /\ running

\* thread t has left the finally block up to the restore of the streams
Restored(t) == threads[t].pc \in {"set_running", "println", "done"}

\* some thread has the streams redirected resp. NONINTERACTIVE set
Redirected == \E t \in Started : threads[t].pc \in {"set_env", "body", "restore_env", "restore_out"}
EnvSet     == \E t \in Started : threads[t].pc \in {"body", "restore_env"}

Count(q, m) == Cardinality({ i \in 1..Len(q) : q[i] = m })

\* C29: every started background task eventually ends, with the running flag
\* reset to false, the output streams and NONINTERACTIVE restored to what they
\* were before the task and the completion message enqueued, whether the body
\* returns or raises; the front-end never stays in the running state.
C29_TaskEnds ==
    /\ \A t \in 1..MaxRequests :
          (Len(threads) >= t) ~> (Len(threads) >= t /\ threads[t].pc = "done")
    /\ running ~> ~running
    /\ [](\A t \in Started :
            /\ threads[t].pc # "redirect" => threads[t].old_out = "console"
            /\ Restored(t) /\ ~Redirected => sys_stdout = threads[t].old_out
            /\ Restored(t) /\ ~EnvSet => environ = threads[t].old_env
            /\ threads[t].pc \in {"println", "done"} /\ t = Len(threads)
                 /\ m_pc = "mainloop" => ~running)
    /\ [](Count(txt \o log_q, Fertig)
            = Cardinality({ t \in Started : threads[t].pc = "done" }))

\* a task that raised has ended, in a process started with NONINTERACTIVE=0
C29_Witness ==
    /\ \E t \in Started : threads[t].pc = "done" /\ threads[t].raised
                            /\ threads[t].old_env = <<"0">>
    /\ ~running
    /\ environ = <<"0">>
    /\ sys_stdout = "console"

\* the start and completion messages put on the queue so far, in order
Messages == SelectSeq(txt \o log_q, LAMBDA m : m \in {Starte, Fertig})

\* C30: the completion message of a task is put on the log queue before the
\* start message of the next task: start and completion messages strictly
\* alternate.
C30_Alternating ==
    \A i \in 1..Len(Messages) : Messages[i] = IF i % 2 = 1 THEN Starte ELSE Fertig

\* what holds of the code: the start message of a task precedes its completion
\* message, and every message of a task is put exactly once
C30_StartBeforeCompletion ==
    /\ \A i \in 1..Len(Messages) :
          Count(SubSeq(Messages, 1, i), Fertig) <= Count(SubSeq(Messages, 1, i), Starte)
    /\ Count(Messages, Starte) \in {Len(threads), Len(threads) + 1}

====
